---- MODULE Spec2Model ----
(***************************************************************************)
(* A model of the peerlinks protocol core: the per-channel message store   *)
(* (lib/storage/memory.js), the channel acceptance rules and sync driver   *)
(* (the Channel class of lib/utils.js), and the per-peer SyncAgent         *)
(* (lib/sync-agent.js).                                                    *)
(***************************************************************************)
EXTENDS Integers, Sequences, FiniteSets, TLC

(***************************************************************************)
(* Bounds of the model.                                                    *)
(***************************************************************************)
\* message hashes are the numbers 1..MaxHash (Buffer.compare = numeric order)
MaxHash == 3
\* the clock and message timestamps take the values Tick(0..MaxTick)
MaxTick == 2
\* largest height field an incoming message may claim
MaxHeight == 2
\* largest number of parents an incoming message may list
MaxParents == 2

(***************************************************************************)
(* Program constants.                                                      *)
(***************************************************************************)
MAX_PARENT_DELTA == 2592000
MAX_LEAVES_COUNT == 128
FUTURE == 120
JSON_LIMIT_1 == 2097152

Hashes == 1..MaxHash

\* Representative clock values: 0, then 100 (ahead of 0 by less than FUTURE),
\* then instants MAX_PARENT_DELTA apart (ahead by more than FUTURE, and
\* more than MAX_PARENT_DELTA after every instant but the one before).
Tick(i) == IF i = 0 THEN 0 ELSE (i - 1) * MAX_PARENT_DELTA + 100
Times == { Tick(i) : i \in 0..MaxTick }

Max(a, b) == IF a > b THEN a ELSE b
Min(a, b) == IF a < b THEN a ELSE b

Range(s) == { s[i] : i \in 1..Len(s) }

\* the sequence s without the elements of the set `gone` (Set.delete of each)
Without(s, gone) ==
  LET kept(h) == h \notin gone
  IN  SelectSeq(s, kept)

\* Array.prototype.slice(from, to) with 0-based, end-exclusive indices
Slice(s, from, to) ==
  IF to <= from THEN <<>> ELSE SubSeq(s, from + 1, Min(to, Len(s)))

(***************************************************************************)
(* Chains.  A link names the key that signed it, the key it delegates to   *)
(* and its validity window; the channel's root key is "root".              *)
(***************************************************************************)
GoodLink    == [signedBy |-> "root", trustee |-> "k1",
                validFrom |-> 0, validTo |-> Tick(MaxTick) + 1]
ForgedLink  == [signedBy |-> "k2", trustee |-> "k1",
                validFrom |-> 0, validTo |-> Tick(MaxTick) + 1]

\* what an incoming message may carry as chain, signing key and JSON length:
\* the owner's and a member's valid credentials, a member's over-long body,
\* a chain whose link the root key did not sign, a signature by a key the
\* chain does not lead to
Credentials ==
  { [chain |-> <<>>, signer |-> "root", jsonLength |-> 2],
    [chain |-> <<GoodLink>>, signer |-> "k1", jsonLength |-> 2],
    [chain |-> <<GoodLink>>, signer |-> "k1", jsonLength |-> JSON_LIMIT_1 + 1],
    [chain |-> <<ForgedLink>>, signer |-> "k1", jsonLength |-> 2],
    [chain |-> <<>>, signer |-> "k1", jsonLength |-> 2] }

\* Link.isValid
isValid(link, timestamp) ==
  link.validFrom <= timestamp /\ timestamp < link.validTo

\* a link check that looks at the signature only, at any time
linkVerifyAnyTime(link, publicKey, timestamp) == link.signedBy = publicKey

\* Link.verify: the window holds and the signature is by publicKey
linkVerify(link, publicKey, timestamp) ==
  isValid(link, timestamp) /\ link.signedBy = publicKey

RECURSIVE walkChain(_, _, _)
walkChain(links, leafKey, timestamp) ==
  IF links = <<>> THEN leafKey
  ELSE IF ~linkVerify(Head(links), leafKey, timestamp) THEN "false"
       ELSE walkChain(Tail(links), Head(links).trustee, timestamp)

\* Chain.getLeafKey: walk from the channel's public key; "false" on failure
getLeafKey(chain, timestamp) == walkChain(chain, "root", timestamp)

\* Message.verify: the chain is walked at the verifier's clock (now() is the
\* default timestamp of getLeafKey) and the signature must be by the leaf key
verify(message, clock) == message.signer = getLeafKey(message.chain, clock)

(***************************************************************************)
(* Messages.                                                               *)
(***************************************************************************)
ParentSets == { ps \in SUBSET Hashes : Cardinality(ps) <= MaxParents }

\* every message that can be built: any parents, height, timestamp, body
\* and credentials, under any hash (its hash covers its parents, so it is
\* not among them)
MessagesOf(h) ==
  { [hash |-> h, parents |-> ps, height |-> ht, timestamp |-> ts, body |-> b,
     chain |-> c.chain, signer |-> c.signer, jsonLength |-> c.jsonLength] :
      ps \in { q \in ParentSets : h \notin q },
      ht \in 0..MaxHeight, ts \in Times,
      b \in {"root", "json"}, c \in Credentials }

\* The messages that may be handed to Channel.receive when the messages of
\* `known` exist: a hash is a content address, so a message whose hash is
\* the hash of an existing message is that message.
InputMessages(known) ==
  known \cup UNION { MessagesOf(h) :
                      h \in { g \in Hashes : \A k \in known : k.hash # g } }

(***************************************************************************)
(* Memory storage of one channel: {messages, messageByHash, leaves}.       *)
(***************************************************************************)
\* Memory.getChannelData for a channel with no data yet
EmptyData == [messages |-> <<>>, messageByHash |-> {}, leaves |-> <<>>]

\* a comparator that orders by height alone, without the hash tie-break
compareHeights(a, b) ==
  IF a.height < b.height THEN -1
  ELSE IF a.height > b.height THEN 1
  ELSE 0

\* the comparator of data.messages.sort in Memory.addMessage
compare(a, b) ==
  IF a.height < b.height THEN -1
  ELSE IF a.height > b.height THEN 1
  ELSE IF a.hash < b.hash THEN -1
  ELSE IF a.hash > b.hash THEN 1
  ELSE 0

\* Array.prototype.sort under `compare` (a stable sort): the element at
\* index k goes behind the elements that compare lower, and behind those
\* before it that compare equal
sort(s) ==
  LET n == Len(s)
      ahead(k) == { j \in 1..n :
                     \/ compare(s[j], s[k]) < 0
                     \/ compare(s[j], s[k]) = 0 /\ j < k }
      place == SubSeq([k \in 1..n |-> Cardinality(ahead(k)) + 1], 1, n)
  IN  SubSeq([i \in 1..n |-> s[CHOOSE k \in 1..n : place[k] = i]], 1, n)

\* Memory.hasMessage
hasMessage(data, hash) == \E m \in data.messageByHash : m.hash = hash

\* Memory.getMessage (only used on stored hashes)
getMessage(data, hash) == CHOOSE m \in data.messageByHash : m.hash = hash

\* addMessage that leaves the parents of the new message among the leaves
addMessageKeepLeaves(data, message) ==
  IF hasMessage(data, message.hash) THEN data
  ELSE [messages |-> sort(Append(data.messages, message)),
        messageByHash |-> data.messageByHash \cup {message},
        leaves |-> Append(data.leaves, message.hash)]

\* addMessage without the duplicate check
addMessageAgain(data, message) ==
  [messages |-> sort(Append(data.messages, message)),
   messageByHash |-> data.messageByHash \cup {message},
   leaves |-> Append(Without(data.leaves, message.parents), message.hash)]

\* Memory.addMessage
addMessage(data, message) ==
  IF hasMessage(data, message.hash) THEN data
  ELSE [messages |-> sort(Append(data.messages, message)),
        messageByHash |-> data.messageByHash \cup {message},
        leaves |-> Append(Without(data.leaves, message.parents),
                          message.hash)]

\* Memory.getMessageCount
getMessageCount(data) == Len(data.messages)

\* Memory.getMessageAtOffset
getMessageAtOffset(data, offset) == data.messages[offset + 1]

\* Channel.getLeaves: the first MAX_LEAVES_COUNT leaves, as messages
getLeaves(data) ==
  LET hs == Slice(data.leaves, 0, MAX_LEAVES_COUNT)
  IN  [i \in 1..Len(hs) |-> getMessage(data, hs[i])]

(***************************************************************************)
(* Channel: acceptance rules and posting.                                  *)
(***************************************************************************)
\* computeHeight that follows the lowest parent (Math.min for Math.max)
computeHeightLowest(parents) ==
  IF parents = {} THEN 0
  ELSE LET low == CHOOSE p \in parents : \A q \in parents : p.height <= q.height
       IN  low.height + 1

\* Channel.computeHeight
computeHeight(parents) ==
  IF parents = {} THEN 0
  ELSE LET top == CHOOSE p \in parents : \A q \in parents : q.height <= p.height
       IN  top.height + 1

\* Channel.computeMaxTimestamp
computeMaxTimestamp(parents) ==
  IF parents = {} THEN 0
  ELSE LET top == CHOOSE p \in parents :
                    \A q \in parents : q.timestamp <= p.timestamp
       IN  Max(0, top.timestamp)

\* adjustTimestamp that keeps the caller's timestamp
adjustTimestampKeep(parents, timestamp) == timestamp

\* Channel.adjustTimestamp
adjustTimestamp(parents, timestamp) ==
  Max(timestamp, computeMaxTimestamp(parents))

\* Channel.filterParents
filterParents(parents) ==
  LET min == computeMaxTimestamp(parents) - MAX_PARENT_DELTA
  IN  { p \in parents : p.timestamp >= min }

\* Channel.jsonLimit (0 stands for Infinity, -1 for the thrown Error)
jsonLimit(chainLength) ==
  CASE chainLength = 0 -> 0
    [] chainLength = 1 -> JSON_LIMIT_1
    [] chainLength = 2 -> 524288
    [] chainLength = 3 -> 8192
    [] OTHER -> -1

\* Channel.checkJSONLimit: TRUE when it does not throw
checkJSONLimit(jsonLength, chainLength) ==
  LET limit == jsonLimit(chainLength)
  IN  limit = 0 \/ (limit > 0 /\ jsonLength <= limit)

\* Channel.receive, as the outcome it ends with: "duplicate" (returns
\* false), "ok" (stores, returns true) or the BanError it throws.
receiveOutcome(data, message, clock) ==
  LET stored  == { h \in message.parents : hasMessage(data, h) }
      parents == { getMessage(data, h) : h \in stored }
  IN  IF hasMessage(data, message.hash) THEN "duplicate"
      ELSE IF ~verify(message, clock) THEN "ban: invalid signature"
      ELSE IF Cardinality(message.parents) > MAX_LEAVES_COUNT
        THEN "ban: parent count"
      ELSE IF stored # message.parents THEN "ban: parent not found"
      ELSE IF filterParents(parents) # parents THEN "ban: parent delta"
      ELSE IF message.height # computeHeight(parents) THEN "ban: height"
      ELSE IF message.timestamp > clock + FUTURE THEN "ban: future"
      ELSE IF message.timestamp < computeMaxTimestamp(parents)
        THEN "ban: past"
      ELSE IF parents = {} /\ message.body # "root" THEN "ban: root content"
      ELSE IF parents # {} /\ message.body = "root"
        THEN "ban: non-root content"
      ELSE IF parents # {}
              /\ ~checkJSONLimit(message.jsonLength, Len(message.chain))
        THEN "ban: json limit"
      ELSE "ok"

\* a receive that stores the message as soon as its signature is verified,
\* before the other checks
receiveStoring(data, message, clock) ==
  IF receiveOutcome(data, message, clock)
       \in {"duplicate", "ban: invalid signature"}
  THEN data
  ELSE addMessage(data, message)

\* Channel.receive: the store after the call
receive(data, message, clock) ==
  IF receiveOutcome(data, message, clock) = "ok"
  THEN addMessage(data, message)
  ELSE data

\* the identities that may post: the channel's owner and an invited member
Identities ==
  { [chain |-> <<>>, signer |-> "root"],
    [chain |-> <<GoodLink>>, signer |-> "k1"] }

\* a post that does not ask for the message count when no leaf is left
postOutcomeNoCount(data, jsonLength, identity) ==
  IF filterParents(Range(getLeaves(data))) = {} THEN "error: no leaves"
  ELSE IF ~checkJSONLimit(jsonLength, Len(identity.chain))
    THEN "ban: json limit"
  ELSE "ok"

\* Channel.post, as the outcome it ends with
postOutcome(data, jsonLength, identity) ==
  LET parents == filterParents(Range(getLeaves(data)))
  IN  IF parents = {}
      THEN IF getMessageCount(data) = 0 THEN "error: not synchronized"
           ELSE "error: no leaves"
      ELSE IF ~checkJSONLimit(jsonLength, Len(identity.chain))
        THEN "ban: json limit"
      ELSE "ok"

\* the message Channel.post builds from the leaves; `hash` is the hash its
\* random nonce leads to
postMessage(data, hash, timestamp, jsonLength, identity) ==
  LET parents == filterParents(Range(getLeaves(data)))
  IN  [hash |-> hash,
       parents |-> { p.hash : p \in parents },
       height |-> computeHeight(parents),
       timestamp |-> adjustTimestamp(parents, timestamp),
       body |-> "json",
       chain |-> identity.chain,
       signer |-> identity.signer,
       jsonLength |-> jsonLength]

\* Channel.post: the store after the call
post(data, hash, timestamp, jsonLength, identity) ==
  IF postOutcome(data, jsonLength, identity) = "ok"
  THEN addMessage(data, postMessage(data, hash, timestamp, jsonLength, identity))
  ELSE data

\* what the caller of receive or post sees of an outcome: the call returned
\* ("ok", "duplicate") or threw an error of the kind "BanError" or "Error"
kind(outcome) ==
  IF outcome \in {"ok", "duplicate"} THEN outcome
  ELSE IF outcome \in {"error: not synchronized", "error: no leaves"}
    THEN "Error"
  ELSE "BanError"

(***************************************************************************)
(* Synchronization: the query and bulk services of a channel, the driver   *)
(* Channel.sync, and the SyncAgent that carries its requests to the peer   *)
(* at the other end of the socket.                                         *)
(***************************************************************************)
\* the two Protocol instances that share the channel; "A" created it
Peers == {"A", "B"}

\* the peer at the other end of p's socket
remote(p) == IF p = "A" THEN "B" ELSE "A"

\* the channel options {maxQueryLimit, maxUnresolvedCount, maxBulkCount}
maxQueryLimit == 2
maxUnresolvedCount == 1
maxBulkCount == 2

\* the hashes of the messages posted while the peers synchronize are
\* 2..MaxPosts + 1 (the root's is 1)
MaxPosts == 2

\* the number of wait() calls made on the WaitList
MaxWaits == 3

\* a null hash (the empty buffer on the wire)
Null == 0

\* the root message Channel.fromIdentity builds, and the identity each peer
\* posts with: the creator owns the channel, the other was invited
Root ==
  [hash |-> 1, parents |-> {}, height |-> 0, timestamp |-> Tick(0),
   body |-> "root", chain |-> <<>>, signer |-> "root", jsonLength |-> 2]

identityOf(p) ==
  IF p = "A" THEN [chain |-> <<>>, signer |-> "root"]
  ELSE [chain |-> <<GoodLink>>, signer |-> "k1"]

\* Channel.fromIdentity: the store of a channel just created
fromIdentity == receive(EmptyData, Root, Tick(0))

\* an abbreviated message, as a query response carries it
abbreviate(message) == [hash |-> message.hash, parents |-> message.parents]

\* Channel.getMinLeafHeight
getMinLeafHeight(data) ==
  LET leaves == getLeaves(data)
  IN  IF Len(leaves) = 0 THEN 0
      ELSE LET low == CHOOSE i \in 1..Len(leaves) :
                        \A j \in 1..Len(leaves) :
                          leaves[i].height <= leaves[j].height
           IN  leaves[low].height

\* data.messages.findIndex in Memory.query: 0-based, -1 when nothing matches
findIndex(messages, cursor) ==
  LET hits == { i \in 1..Len(messages) :
                 IF cursor.hash # Null THEN messages[i].hash = cursor.hash
                 ELSE messages[i].height = cursor.height }
  IN  IF hits = {} THEN -1
      ELSE (CHOOSE i \in hits : \A j \in hits : i <= j) - 1

\* Memory.query that gives the last returned message's hash as backwardHash
memoryQueryLast(data, cursor, isBackward, limit) ==
  LET index == findIndex(data.messages, cursor)
      start == IF isBackward THEN Max(0, index - limit) ELSE index
      end   == IF isBackward THEN index
               ELSE Min(Len(data.messages), index + limit)
      messages == Slice(data.messages, start, end)
  IN  IF index = -1
      THEN [messages |-> <<>>, forwardHash |-> Null, backwardHash |-> Null,
            error |-> FALSE]
      ELSE IF start # 0 /\ messages = <<>>
      THEN [messages |-> <<>>, forwardHash |-> Null, backwardHash |-> Null,
            error |-> TRUE]
      ELSE [messages |-> messages,
            forwardHash |-> IF end = Len(data.messages) THEN Null
                            ELSE data.messages[end + 1].hash,
            backwardHash |-> IF start = 0 THEN Null
                             ELSE messages[Len(messages)].hash,
            error |-> FALSE]

\* Memory.query; `error` stands for the TypeError of messages[0].hash on an
\* empty slice that does not start at offset 0
memoryQuery(data, cursor, isBackward, limit) ==
  LET index == findIndex(data.messages, cursor)
      start == IF isBackward THEN Max(0, index - limit) ELSE index
      end   == IF isBackward THEN index
               ELSE Min(Len(data.messages), index + limit)
      messages == Slice(data.messages, start, end)
  IN  IF index = -1
      THEN [messages |-> <<>>, forwardHash |-> Null, backwardHash |-> Null,
            error |-> FALSE]
      ELSE IF start # 0 /\ messages = <<>>
      THEN [messages |-> <<>>, forwardHash |-> Null, backwardHash |-> Null,
            error |-> TRUE]
      ELSE [messages |-> messages,
            forwardHash |-> IF end = Len(data.messages) THEN Null
                            ELSE data.messages[end + 1].hash,
            backwardHash |-> IF start = 0 THEN Null ELSE messages[1].hash,
            error |-> FALSE]

\* Channel.query
channelQuery(data, cursor, isBackward, limit) ==
  LET capped == Min(limit, maxQueryLimit)
      from == IF cursor.hash # Null THEN cursor
              ELSE [hash |-> Null,
                    height |-> Min(cursor.height, getMinLeafHeight(data))]
      found == memoryQuery(data, from, isBackward, capped)
  IN  [abbreviatedMessages |->
         [i \in 1..Len(found.messages) |-> abbreviate(found.messages[i])],
       forwardHash |-> found.forwardHash,
       backwardHash |-> found.backwardHash,
       error |-> found.error]

RECURSIVE getMessages(_, _)
\* Channel.getMessages followed by the filter of Channel.bulk: the stored
\* ones among `hashes`, in input order
getMessages(data, hashes) ==
  IF hashes = <<>> THEN <<>>
  ELSE IF hasMessage(data, Head(hashes))
       THEN <<getMessage(data, Head(hashes))>> \o getMessages(data, Tail(hashes))
       ELSE getMessages(data, Tail(hashes))

\* Channel.bulk without the cut at maxBulkCount
channelBulkAll(data, hashes) ==
  [messages |-> getMessages(data, hashes), forwardIndex |-> Len(hashes)]

\* Channel.bulk
channelBulk(data, hashes) ==
  LET taken == Slice(hashes, 0, maxBulkCount)
  IN  [messages |-> getMessages(data, taken), forwardIndex |-> Len(taken)]

RECURSIVE partialDAG(_, _, _)
\* the loop of Channel.computePartialDAG over the abbreviated messages
partialDAG(data, abbreviatedMessages, acc) ==
  IF abbreviatedMessages = <<>> THEN acc
  ELSE
    LET abbr == Head(abbreviatedMessages)
        local == acc.local \cup {abbr.hash}
        outside == { h \in abbr.parents :
                      h \notin acc.unknown /\ h \notin local
                      /\ ~hasMessage(data, h) }
        missing == { h \in abbr.parents : h \in acc.unknown } \cup outside
    IN  partialDAG(data, Tail(abbreviatedMessages),
          [external |-> acc.external \cup outside,
           local |-> local,
           known |-> IF missing = {} /\ ~hasMessage(data, abbr.hash)
                     THEN Append(acc.known, abbr.hash) ELSE acc.known,
           unknown |-> IF missing = {} THEN acc.unknown
                       ELSE acc.unknown \cup {abbr.hash}])

\* Channel.computePartialDAG
computePartialDAG(data, abbreviatedMessages) ==
  LET dag == partialDAG(data, abbreviatedMessages,
               [external |-> {}, local |-> {}, known |-> <<>>, unknown |-> {}])
  IN  [external |-> dag.external, known |-> dag.known]

(***************************************************************************)
(* One peer's side of the session, as the record                           *)
(*   data            - the channel's storage                               *)
(*   agent           - the SyncAgent's fields state, seq, destroyed, and   *)
(*                     the number of runs of channel.sync it has started   *)
(*   runs            - the runs of channel.sync in progress, each waiting  *)
(*                     for the response to its one outstanding request     *)
(*   pendingRequests - the SyncAgent's map seq => {type, ...}, with the    *)
(*                     run that waits and the request that was sent        *)
(* The operators below take such a record and give the record after the    *)
(* code has run up to its next await of a response.                        *)
(***************************************************************************)
NoResponse ==
  [hashes |-> {}, external |-> {}, forwardHash |-> Null, backwardHash |-> Null]

\* the locals of a run of Channel.sync that starts; callsDuring and
\* startedDuring count the synchronize() calls that arrived and the runs
\* that were started while it was in progress
newRun(id) ==
  [id |-> id, isFull |-> FALSE, delta |-> 0,
   cursor |-> [hash |-> Null, height |-> 0], unresolved |-> {},
   hashes |-> <<>>, expected |-> {}, response |-> NoResponse,
   callsDuring |-> 0, startedDuring |-> 0]

\* A seq is an unsigned 32-bit number, kept as its two 16-bit halves
\* [hi, lo] (it stands for hi * 65536 + lo).
seqOf(hi, lo) == [hi |-> hi, lo |-> lo]

\* a successor that wraps the low half and drops the carry into the high half
getNextSeqNoCarry(seq) == seqOf(seq.hi, (seq.lo + 1) % 65536)

\* SyncAgent.getNextSeq: the seq after `seq`, (seq + 1) >>> 0
getNextSeq(seq) ==
  IF seq.lo + 1 < 65536 THEN seqOf(seq.hi, seq.lo + 1)
  ELSE seqOf((seq.hi + 1) % 65536, 0)

\* SyncAgent.sendAndWait up to its await: the request is registered under
\* the agent's seq and sent, and `run` waits for the response
sendAndWait(ps, run, type, request) ==
  [ps EXCEPT
     !.agent.seq = getNextSeq(@),
     !.runs = { r \in @ : r.id # run.id } \cup {run},
     !.pendingRequests =
        { e \in @ : e.seq # ps.agent.seq }
        \cup {[seq |-> ps.agent.seq, type |-> type, run |-> run.id,
               request |-> request]}]

\* SyncAgent.query up to its await
agentQuery(ps, run) ==
  sendAndWait(ps, run, "query",
    [cursor |-> run.cursor, isBackward |-> run.unresolved # {},
     limit |-> maxQueryLimit, hashes |-> <<>>])

\* SyncAgent.bulk up to its await
agentBulk(ps, run) ==
  sendAndWait(ps, run, "bulk",
    [cursor |-> run.cursor, isBackward |-> FALSE, limit |-> 0,
     hashes |-> run.hashes])

\* a restart that forgets what the run has counted so far
syncFresh(ps, run, isFull) ==
  agentQuery(ps,
    [run EXCEPT
       !.isFull = isFull, !.delta = 0,
       !.cursor = [hash |-> Null,
                   height |-> IF isFull THEN 0 ELSE getMinLeafHeight(ps.data)],
       !.unresolved = {},
       !.hashes = <<>>, !.expected = {}, !.response = NoResponse])

\* Channel.sync from its start to its first query
sync(ps, run, isFull) ==
  agentQuery(ps,
    [run EXCEPT
       !.isFull = isFull,
       !.cursor = [hash |-> Null,
                   height |-> IF isFull THEN 0 ELSE getMinLeafHeight(ps.data)],
       !.unresolved = {},
       !.hashes = <<>>, !.expected = {}, !.response = NoResponse])

\* SyncAgent.synchronize from its start to the await of channel.sync
synchronize(ps) ==
  IF ps.agent.destroyed THEN ps
  ELSE IF ps.agent.state = "pending" THEN ps
  ELSE LET id == ps.agent.started + 1
           entered ==
             [ps EXCEPT
                !.agent.state = IF @ = "idle" THEN "active" ELSE "pending",
                !.agent.started = id,
                !.runs = { [r EXCEPT !.startedDuring = @ + 1] : r \in @ }]
       IN  sync(entered, newRun(id), FALSE)

\* SyncAgent.synchronize after channel.sync returned
syncReturned(ps, run) ==
  LET done == [ps EXCEPT !.runs = { r \in @ : r.id # run.id },
                         !.agent.state = "idle"]
  IN  IF ps.agent.state = "pending" THEN synchronize(done) ELSE done

\* channel.sync threw `error`: synchronize() rejects, and the catch of
\* Peer.synchronize logs it
syncThrew(ps, run, error) ==
  [ps EXCEPT !.runs = { r \in @ : r.id # run.id }, !.thrown = error]

\* Channel.sync after receiveBulk: the unresolved set, the fallback to a
\* full sync, and the next cursor
afterBulk(ps, run) ==
  LET unresolved ==
        (run.unresolved \ run.response.hashes) \cup run.response.external
      hash == IF unresolved = {} THEN run.response.forwardHash
              ELSE run.response.backwardHash
  IN  IF run.response.external # {}
         /\ Cardinality(unresolved) > maxUnresolvedCount
      THEN sync(ps, run, TRUE)
      ELSE IF unresolved # {} /\ run.isFull THEN syncThrew(ps, run, "Error")
      ELSE IF hash = Null THEN syncReturned(ps, run)
      ELSE agentQuery(ps, [run EXCEPT !.unresolved = unresolved,
                                      !.cursor = [hash |-> hash, height |-> 0]])

\* Channel.receiveBulk at the head of its loop
receiveBulk(ps, run) ==
  IF Len(run.hashes) = 0 THEN afterBulk(ps, run) ELSE agentBulk(ps, run)

RECURSIVE receiveEach(_, _, _, _)
\* the loop of Channel.receiveBulk over the messages of one bulk response
receiveEach(data, messages, expected, clock) ==
  IF messages = <<>> THEN [data |-> data, delta |-> 0, threw |-> FALSE]
  ELSE
    LET message == Head(messages)
        outcome == receiveOutcome(data, message, clock)
    IN  IF message.hash \notin expected \/ kind(outcome) = "BanError"
        THEN [data |-> data, delta |-> 0, threw |-> TRUE]
        ELSE LET rest == receiveEach(receive(data, message, clock),
                                     Tail(messages), expected, clock)
             IN  [rest EXCEPT !.delta = @ + IF outcome = "ok" THEN 1 ELSE 0]

\* Channel.receiveBulk when remote.bulk answered
onBulkResponse(ps, run, response, clock) ==
  IF response.forwardIndex <= 0 THEN syncThrew(ps, run, "BanError")
  ELSE LET got == receiveEach(ps.data, response.messages, run.expected, clock)
           stored == [ps EXCEPT !.data = got.data]
       IN  IF got.threw THEN syncThrew(stored, run, "BanError")
           ELSE receiveBulk(stored,
                  [run EXCEPT
                     !.delta = @ + got.delta,
                     !.hashes = Slice(@, response.forwardIndex, Len(@))])

\* Channel.sync when remote.query answered; on overflow the argument of
\* new BanError reads response.messages.length, and a query response has no
\* messages field: the evaluation throws a TypeError before the BanError
\* is constructed
onQueryResponse(ps, run, response) ==
  IF Len(response.abbreviatedMessages) > maxQueryLimit
  THEN syncThrew(ps, run, "TypeError")
  ELSE LET dag == computePartialDAG(ps.data, response.abbreviatedMessages)
       IN  IF run.isFull /\ dag.external # {}
           THEN syncThrew(ps, run, "BanError")
           ELSE receiveBulk(ps,
                  [run EXCEPT
                     !.hashes = dag.known,
                     !.expected = Range(dag.known),
                     !.response =
                        [hashes |-> { a.hash :
                                       a \in Range(response.abbreviatedMessages) },
                         external |-> dag.external,
                         forwardHash |-> response.forwardHash,
                         backwardHash |-> response.backwardHash]])

\* response matching by seq alone, without the type check
receiveResponseAnyType(pendingRequests, seq, type) ==
  IF ~\E e \in pendingRequests : e.seq = seq THEN "BanError"
  ELSE "resolve"

\* SyncAgent.receiveQueryResponse / receiveBulkResponse: what a response of
\* `type` under `seq` meets in the map
receiveResponse(pendingRequests, seq, type) ==
  IF ~\E e \in pendingRequests : e.seq = seq THEN "BanError"
  ELSE IF (CHOOSE e \in pendingRequests : e.seq = seq).type # type
    THEN "BanError"
  ELSE "resolve"

(***************************************************************************)
(* State.                                                                  *)
(***************************************************************************)
VARIABLES
  data,             \* each peer's channel storage
  now,              \* the clock, in seconds
  last,             \* the last call made on the channel: the operation, the
                    \* kind of its outcome and, for a post that returned a
                    \* message, the timestamp argument and the message's hash
  agent,            \* each peer's SyncAgent for the channel
  runs,             \* each agent's runs of channel.sync in progress
  pendingRequests,  \* each agent's pending requests
  notified,         \* whether a trigger of synchronize() is on its way to
                    \* each peer (onNewChannel, or a Notification packet)
  packet,           \* the last packet a peer's loop was handed, or the
                    \* last timeout that fired on a pending request
  connected,        \* whether the session between the peers is open
  thrown,           \* what the last step of an agent threw out of
                    \* synchronize(), into the catch of Peer.synchronize
  calls,            \* the calls of Channel.receive in progress, each at
                    \* one of its awaits
  incoming,         \* the hashes the channel's incoming-message wait-list
                    \* was resolved with, in order
  map,              \* WaitList.map: id => the elem stored under it
  promises,         \* the promises WaitList.wait has returned, in order
  settled,          \* the promises that were settled, in order
  call,             \* the last call made on the WaitList or on an entry
  answer,           \* the last answer of the query or bulk service
  link,             \* the last call of the Link constructor: its options
                    \* and whether it returned a Link
  peers,            \* Protocol.peers: the sockets whose Peer is in the set
  conn,             \* each socket's call of Protocol.connect: where it is,
                    \* whether peerWaitList was resolved for it, and how
                    \* many packets its loop has dispatched
  sentError,        \* the last error packet a Peer sent: the socket and
                    \* the length of the reason, in bytes
  closing,          \* where the call of Protocol.close() is
  channels,         \* Protocol.channels
  identities,       \* Protocol.identities
  storage,          \* the storage's entities: prefix => (id => entity), in
                    \* the order the ids were first set
  reloaded          \* a second Protocol over the same storage, after load()

vars == <<data, now, last, agent, runs, pendingRequests, notified, packet,
          connected, thrown, calls, incoming, map, promises, settled, call,
          answer, link, peers, conn, sentError, closing, channels, identities,
          storage, reloaded>>

syncVars == <<agent, runs, pendingRequests, notified, packet, connected,
              thrown>>

\* the state of Link construction, of the Protocol's connections and of its
\* channels, identities and storage
protocolVars == <<link, peers, conn, sentError, closing, channels, identities,
                  storage, reloaded>>

\* the state of the overlapping calls of receive, of the WaitList and of
\* the query service, and the state of the Protocol
otherVars == <<calls, incoming, map, promises, settled, call, answer,
               protocolVars>>

NoCall == [op |-> "none", hash |-> 0, timestamp |-> 0, outcome |-> "none"]

NoPacket ==
  [peer |-> "none", seq |-> seqOf(0, 0), type |-> "none", outcome |-> "none"]

NoThrow == [peer |-> "none", error |-> "none"]

\* no call has been made on the WaitList yet
NoWait == [op |-> "none", id |-> "none", entry |-> 0, value |-> 0]

\* the query service has not been asked yet
NoAnswer ==
  [op |-> "none", cursor |-> [hash |-> Null, height |-> 0],
   isBackward |-> FALSE, limit |-> 0, hashes |-> <<>>, messages |-> <<>>,
   forwardHash |-> Null, backwardHash |-> Null, forwardIndex |-> 0,
   error |-> FALSE]

\* no call of receive in progress, a WaitList just constructed
\* the Link constructor has not been called yet
NoLink ==
  [validFrom |-> 0, validTo |-> 0, nameLength |-> 0, signatureLength |-> 0,
   keyLength |-> 0, outcome |-> "none"]

\* the sockets that may be handed to Protocol.connect
Sockets == {"s1", "s2"}

\* a socket that Protocol.connect has not been called with yet
NoPeer ==
  [pc |-> "none", open |-> TRUE, hello |-> [version |-> 0, idLength |-> 0],
   resolved |-> FALSE, dispatched |-> 0]

\* no error packet has been sent yet
NoError == [socket |-> "none", reason |-> 0]

\* the Protocol constructor, over a storage that holds no entity, and no
\* second Protocol yet
InitProtocol ==
  /\ link = NoLink
  /\ peers = {}
  /\ conn = [s \in Sockets |-> NoPeer]
  /\ sentError = NoError
  /\ closing = [state |-> "idle", left |-> {}]
  /\ channels = <<>>
  /\ identities = <<>>
  /\ storage = [channel |-> <<>>, identity |-> <<>>]
  /\ reloaded = [loaded |-> FALSE, channels |-> <<>>, identities |-> <<>>]

InitOther ==
  /\ calls = {}
  /\ incoming = <<>>
  /\ map = {}
  /\ promises = <<>>
  /\ settled = <<>>
  /\ call = NoWait
  /\ answer = NoAnswer
  /\ InitProtocol

\* the SyncAgent constructor
newAgent ==
  [state |-> "idle", seq |-> seqOf(0, 0), destroyed |-> FALSE, started |-> 0]

\* the agents just constructed, nothing sent yet
InitAgents ==
  /\ agent = [p \in Peers |-> newAgent]
  /\ runs = [p \in Peers |-> {}]
  /\ pendingRequests = [p \in Peers |-> {}]
  /\ packet = NoPacket
  /\ connected = TRUE
  /\ thrown = NoThrow

Init ==
  /\ data = [p \in Peers |-> EmptyData]
  /\ now = Tick(0)
  /\ last = NoCall
  /\ InitAgents
  /\ notified = [p \in Peers |-> FALSE]
  /\ InitOther

\* time passes
Advance ==
  /\ \E t \in Times : t > now /\ now' = t
  /\ UNCHANGED <<data, last>>
  /\ UNCHANGED syncVars
  /\ UNCHANGED otherVars

\* a call of Channel.receive(message) at peer p
Receive(p) ==
  \E message \in InputMessages(data[p].messageByHash) :
    /\ data' = [data EXCEPT ![p] = receive(@, message, now)]
    /\ last' = [op |-> "receive", hash |-> 0, timestamp |-> 0,
                outcome |-> kind(receiveOutcome(data[p], message, now))]
    /\ UNCHANGED now
    /\ UNCHANGED syncVars
    /\ UNCHANGED otherVars

\* a call of Channel.post(body, identity, {timestamp}) at peer p
Post(p) ==
  \E hash \in Hashes, timestamp \in Times,
     jsonLength \in {2, JSON_LIMIT_1 + 1}, identity \in Identities :
    /\ ~hasMessage(data[p], hash)
    /\ data' = [data EXCEPT
                  ![p] = post(@, hash, timestamp, jsonLength, identity)]
    /\ last' = IF postOutcome(data[p], jsonLength, identity) = "ok"
               THEN [op |-> "post", hash |-> hash, timestamp |-> timestamp,
                     outcome |-> "ok"]
               ELSE [op |-> "post", hash |-> 0, timestamp |-> 0,
                     outcome |->
                       kind(postOutcome(data[p], jsonLength, identity))]
    /\ UNCHANGED now
    /\ UNCHANGED syncVars
    /\ UNCHANGED otherVars

\* one channel, handed any message and posted to at any time
Next == Advance \/ Receive("A") \/ Post("A")

Spec == Init /\ [][Next]_vars

(***************************************************************************)
(* The storage on its own: Memory.addMessage is handed messages in any     *)
(* order, as the storage tests do (a child may come before its parent).    *)
(***************************************************************************)
\* a call of Memory.addMessage(message)
AddMessage(p) ==
  \E message \in InputMessages(data[p].messageByHash) :
    /\ message.timestamp = Tick(0)
    /\ message.body = "json"
    /\ message.chain = <<>> /\ message.signer = "root"
    /\ data' = [data EXCEPT ![p] = addMessage(@, message)]
    /\ last' = [op |-> "addMessage", hash |-> 0, timestamp |-> 0,
                outcome |-> IF hasMessage(data[p], message.hash)
                            THEN "duplicate" ELSE "ok"]
    /\ UNCHANGED now
    /\ UNCHANGED syncVars
    /\ UNCHANGED otherVars

NextMemory == AddMessage("A")

SpecMemory == Init /\ [][NextMemory]_vars

(***************************************************************************)
(* Two connected peers that share the channel.                             *)
(***************************************************************************)
PeerState(p) ==
  [data |-> data[p], agent |-> agent[p], runs |-> runs[p],
   pendingRequests |-> pendingRequests[p], thrown |-> "none"]

\* peer p's side becomes ps
Becomes(p, ps) ==
  /\ data' = [data EXCEPT ![p] = ps.data]
  /\ agent' = [agent EXCEPT ![p] = ps.agent]
  /\ runs' = [runs EXCEPT ![p] = ps.runs]
  /\ pendingRequests' = [pendingRequests EXCEPT ![p] = ps.pendingRequests]
  /\ thrown' = IF ps.thrown = "none" THEN NoThrow
               ELSE [peer |-> p, error |-> ps.thrown]

\* Peer.onNewChannel / Peer.onNotification at peer p: Peer.synchronize calls
\* the agent's synchronize()
Notification(p) ==
  /\ connected
  /\ notified[p]
  /\ notified' = [notified EXCEPT ![p] = FALSE]
  /\ Becomes(p, synchronize(
       [PeerState(p) EXCEPT
          !.runs = { [r EXCEPT !.callsDuring = @ + 1] : r \in @ }]))
  /\ UNCHANGED <<now, last, packet, connected>>
  /\ UNCHANGED otherVars

\* peer p posts a message now, and Peer.onNewMessage notifies the other peer
PostAndNotify(p) ==
  /\ connected
  /\ \E hash \in 2..(MaxPosts + 1) :
       /\ \A q \in Peers : ~hasMessage(data[q], hash)
       /\ postOutcome(data[p], 2, identityOf(p)) = "ok"
       /\ data' = [data EXCEPT ![p] = post(@, hash, now, 2, identityOf(p))]
  /\ notified' = [notified EXCEPT ![remote(p)] = TRUE]
  /\ UNCHANGED <<now, last, agent, runs, pendingRequests, packet, connected,
                 thrown>>
  /\ UNCHANGED otherVars

\* Peer.onQueryResponse / Peer.onBulkResponse at peer p, for a response of
\* `type` under `seq`: the agent throws a BanError and the session ends, or
\* the request is resolved with what the other peer's channel answers, the
\* entry is deleted and the waiting run goes on to its next await
Response(p, seq, type) ==
  /\ connected
  /\ UNCHANGED otherVars
  /\ IF receiveResponse(pendingRequests[p], seq, type) = "BanError"
     THEN /\ packet' = [peer |-> p, seq |-> seq, type |-> type,
                        outcome |-> "BanError"]
          /\ connected' = FALSE
          /\ UNCHANGED <<data, now, last, agent, runs, pendingRequests,
                         notified, thrown>>
     ELSE LET entry == CHOOSE e \in pendingRequests[p] : e.seq = seq
              run == CHOOSE r \in runs[p] : r.id = entry.run
              ps == [PeerState(p) EXCEPT !.pendingRequests = @ \ {entry}]
              there == data[remote(p)]
          IN  /\ IF entry.type = "query"
                 THEN LET response ==
                            channelQuery(there, entry.request.cursor,
                                         entry.request.isBackward,
                                         entry.request.limit)
                      IN  /\ ~response.error
                          /\ Becomes(p, onQueryResponse(ps, run, response))
                 ELSE Becomes(p, onBulkResponse(ps, run,
                        channelBulk(there, entry.request.hashes), now))
              /\ packet' = [peer |-> p, seq |-> seq, type |-> type,
                            outcome |-> "resolve"]
              /\ UNCHANGED <<now, last, notified, connected>>

\* the other peer answers one of p's pending queries
QueryResponse(p) ==
  \E e \in pendingRequests[p] : e.type = "query" /\ Response(p, e.seq, "query")

\* the other peer answers one of p's pending bulk requests
BulkResponse(p) ==
  \E e \in pendingRequests[p] : e.type = "bulk" /\ Response(p, e.seq, "bulk")

\* a response arrives that answers no pending request of p: its seq is not
\* pending, or the request pending under its seq is of the other type
StrayResponse(p) ==
  \E seq \in { e.seq : e \in pendingRequests[p] } \cup {agent[p].seq},
     type \in {"query", "bulk"} :
    /\ ~\E e \in pendingRequests[p] : e.seq = seq /\ e.type = type
    /\ Response(p, seq, type)

\* A has created the channel, B holds the invite, and the session opens:
\* Peer.onNewChannel triggers synchronize() on both sides
InitSync ==
  /\ data = [p \in Peers |-> IF p = "A" THEN fromIdentity ELSE EmptyData]
  /\ now = Tick(0)
  /\ last = NoCall
  /\ InitAgents
  /\ notified = [p \in Peers |-> TRUE]
  /\ InitOther

NextSync ==
  \E p \in Peers :
    \/ PostAndNotify(p)
    \/ Notification(p)
    \/ QueryResponse(p)
    \/ BulkResponse(p)
    \/ StrayResponse(p)

SpecSync == InitSync /\ [][NextSync]_vars

(***************************************************************************)
(* Two connected peers after the last post, B holding more than            *)
(* MAX_LEAVES_COUNT leaves: the root, a message `a` on it, one message on  *)
(* `a` per c in 1..MAX_LEAVES_COUNT, and last a second message `x` on the  *)
(* root.  A holds all of them but x (and possibly the last c).             *)
(***************************************************************************)
wideMessage(hash, parent, height) ==
  [hash |-> hash, parents |-> {parent}, height |-> height,
   timestamp |-> Tick(0), body |-> "json", chain |-> <<GoodLink>>,
   signer |-> "k1", jsonLength |-> 2]

wideA == wideMessage(2, 1, 1)
wideX == wideMessage(3, 1, 1)
wideC(c) == wideMessage(3 + c, 2, 2)

\* the store of a channel after Channel.receive of the root, of `a`, of the
\* messages c in 1..held in turn, and then (withX) of `x`: the messages by
\* (height, hash), the leaves in the order they were added
wideStore(held, withX) ==
  LET tail == IF withX THEN <<wideX>> ELSE <<>>
  IN  [messages |-> <<Root, wideA>> \o tail \o [c \in 1..held |-> wideC(c)],
       messageByHash |-> {Root, wideA} \cup Range(tail)
                         \cup { wideC(c) : c \in 1..held },
       leaves |-> [c \in 1..held |-> wideC(c).hash]
                  \o [i \in 1..Len(tail) |-> tail[i].hash]]

InitWide ==
  /\ \E held \in {MAX_LEAVES_COUNT - 1, MAX_LEAVES_COUNT} :
       data = [p \in Peers |->
                 IF p = "A" THEN wideStore(held, FALSE)
                 ELSE wideStore(MAX_LEAVES_COUNT, TRUE)]
  /\ now = Tick(0)
  /\ last = NoCall
  /\ InitAgents
  /\ notified = [p \in Peers |-> TRUE]
  /\ InitOther

\* nothing is posted any more: triggers are delivered and requests answered
NextQuiet ==
  \E p \in Peers :
    \/ Notification(p)
    \/ QueryResponse(p)
    \/ BulkResponse(p)

SpecWide == InitWide /\ [][NextQuiet]_vars

(***************************************************************************)
(* Two connected peers when things go wrong: the remote peer may hold a    *)
(* message whose signature fails, a request may time out, a packet may     *)
(* make the loop throw, and the Protocol may be closed.                    *)
(***************************************************************************)
\* a message on the root whose chain link the root key did not sign
forged ==
  [hash |-> 2, parents |-> {1}, height |-> 1, timestamp |-> Tick(0),
   body |-> "json", chain |-> <<ForgedLink>>, signer |-> "k1",
   jsonLength |-> 2]

\* a message on the root that a member posted
honest ==
  [hash |-> 3, parents |-> {1}, height |-> 1, timestamp |-> Tick(0),
   body |-> "json", chain |-> <<GoodLink>>, signer |-> "k1",
   jsonLength |-> 2]

\* SyncAgent.query when the request was resolved with null
queryOfNull ==
  [abbreviatedMessages |-> <<>>, forwardHash |-> Null, backwardHash |-> Null,
   error |-> FALSE]

\* SyncAgent.bulk when the request was resolved with null
bulkOfNull == [messages |-> <<>>, forwardIndex |-> 0]

\* the timer of sendAndWait fires on a pending request of p before its
\* response: the request is resolved with null, the entry is deleted and
\* the waiting run goes on with the empty answer
Timeout(p) ==
  /\ connected
  /\ \E entry \in pendingRequests[p] :
       LET run == CHOOSE r \in runs[p] : r.id = entry.run
           ps == [PeerState(p) EXCEPT !.pendingRequests = @ \ {entry}]
       IN  /\ Becomes(p, IF entry.type = "query"
                         THEN onQueryResponse(ps, run, queryOfNull)
                         ELSE onBulkResponse(ps, run, bulkOfNull, now))
           /\ packet' = [peer |-> p, seq |-> entry.seq, type |-> entry.type,
                         outcome |-> "timeout"]
  /\ UNCHANGED <<now, last, notified, connected>>
  /\ UNCHANGED otherVars

\* the response to the request of p that has just timed out arrives after
\* all: Peer.onQueryResponse / Peer.onBulkResponse with the seq that the
\* finally of sendAndWait has deleted from pendingRequests
LateResponse(p) ==
  /\ packet.outcome = "timeout"
  /\ packet.peer = p
  /\ Response(p, packet.seq, packet.type)

\* a query response that carries one abbreviated message more than
\* maxQueryLimit
overflowing ==
  [abbreviatedMessages |->
     [i \in 1..(maxQueryLimit + 1) |-> abbreviate(IF i = 1 THEN honest ELSE forged)],
   forwardHash |-> Null, backwardHash |-> Null, error |-> FALSE]

\* the other peer answers one of p's pending queries with the overflowing
\* response: SyncAgent.receiveResponse resolves the request with it and the
\* waiting run of Channel.sync goes on
Overflow(p) ==
  /\ connected
  /\ \E entry \in pendingRequests[p] :
       /\ entry.type = "query"
       /\ LET run == CHOOSE r \in runs[p] : r.id = entry.run
               ps == [PeerState(p) EXCEPT !.pendingRequests = @ \ {entry}]
           IN  Becomes(p, onQueryResponse(ps, run, overflowing))
       /\ packet' = [peer |-> p, seq |-> entry.seq, type |-> "query",
                     outcome |-> "overflow"]
  /\ UNCHANGED <<now, last, notified, connected>>
  /\ UNCHANGED otherVars

\* Peer.loop at peer p is handed a packet that makes it throw an Error that
\* is not a BanError (an invite whose requestId has a wrong length, a packet
\* of no supported type); the catch of Protocol.connect destroys the peer
\* and takes it out of the peer set
BadPacket(p) ==
  /\ connected
  /\ \E type \in {"invite", "unsupported"} :
       packet' = [peer |-> p, seq |-> seqOf(0, 0), type |-> type,
                  outcome |-> "Error"]
  /\ connected' = FALSE
  /\ thrown' = NoThrow
  /\ UNCHANGED <<data, now, last, agent, runs, pendingRequests, notified>>
  /\ UNCHANGED otherVars

\* Protocol.close at peer p: Peer.destroy sends the error packet and closes
\* the socket
Close(p) ==
  /\ connected
  /\ packet' = [peer |-> p, seq |-> seqOf(0, 0), type |-> "error",
                outcome |-> "destroy"]
  /\ connected' = FALSE
  /\ thrown' = NoThrow
  /\ UNCHANGED <<data, now, last, agent, runs, pendingRequests, notified>>
  /\ UNCHANGED otherVars

\* A has created the channel; B answers from a store that holds the root
\* and any of `forged` and `honest`
InitFaults ==
  /\ \E held \in SUBSET {honest, forged} :
       data = [p \in Peers |->
                 IF p = "A" THEN fromIdentity
                 ELSE LET one == IF honest \in held
                                 THEN addMessage(fromIdentity, honest)
                                 ELSE fromIdentity
                      IN  IF forged \in held THEN addMessage(one, forged)
                          ELSE one]
  /\ now = Tick(0)
  /\ last = NoCall
  /\ InitAgents
  /\ notified = [p \in Peers |-> TRUE]
  /\ InitOther

NextFaults ==
  \E p \in Peers :
    \/ Notification(p)
    \/ QueryResponse(p)
    \/ BulkResponse(p)
    \/ StrayResponse(p)
    \/ Timeout(p)
    \/ LateResponse(p)
    \/ Overflow(p)
    \/ BadPacket(p)
    \/ Close(p)

SpecFaults == InitFaults /\ [][NextFaults]_vars

(***************************************************************************)
(* One channel whose receive is called by several tasks (the sync agents   *)
(* of different peers).  Channel.receive is an async function: a call runs *)
(* up to its next await, and other calls may run before it resumes.  The   *)
(* clock stands still here.                                                *)
(***************************************************************************)
\* the tasks that call receive
Callers == {"c1", "c2"}

\* the messages the remote peers deliver
Offered == {Root, honest, forged}

\* what a call of receive whose duplicate check has passed knows of the
\* store: the parents that getMessages has returned to it
seenBy(parents) == [EmptyData EXCEPT !.messageByHash = parents]

\* task c's call becomes `next`
Proceeds(c, next) ==
  calls' = { a \in calls : a.caller # c } \cup {next}

\* task c calls channel.receive(message): the call runs up to
\* `await this.cache.hasMessage(message.hash)`, which reads the store
CallReceive(c) ==
  /\ \A a \in calls : a.caller = c => a.pc = "returned"
  /\ \E message \in Offered :
       Proceeds(c, [caller |-> c, pc |-> "hasMessage", message |-> message,
                    duplicate |-> hasMessage(data["A"], message.hash),
                    parents |-> {}, result |-> "none"])
  /\ UNCHANGED <<data, now, last, incoming, map, promises, settled, call,
                 answer>>
  /\ UNCHANGED syncVars
  /\ UNCHANGED protocolVars

\* receive resumes after hasMessage: it returns false for a duplicate,
\* throws when the signature or the parent count is bad, and else runs up to
\* `await this.getMessages(message.parents)`, which reads the parents
AfterHasMessage(c) ==
  /\ \E a \in calls :
       /\ a.caller = c /\ a.pc = "hasMessage"
       /\ Proceeds(c,
            IF a.duplicate
            THEN [a EXCEPT !.pc = "returned", !.result = "false"]
            ELSE IF receiveOutcome(seenBy({}), a.message, now)
                      \in {"ban: invalid signature", "ban: parent count"}
              THEN [a EXCEPT !.pc = "returned", !.result = "BanError"]
            ELSE [a EXCEPT
                    !.pc = "getMessages",
                    !.parents = { getMessage(data["A"], h) :
                                    h \in { g \in a.message.parents :
                                              hasMessage(data["A"], g) } }])
  /\ UNCHANGED <<data, now, last, incoming, map, promises, settled, call,
                 answer>>
  /\ UNCHANGED syncVars
  /\ UNCHANGED protocolVars

\* receive resumes after getMessages: it throws when a check on the parents,
\* the height, the timestamp or the body fails, and else runs up to
\* `await this.cache.addMessage(message)`, which adds to the store
AfterGetMessages(c) ==
  /\ \E a \in calls :
       /\ a.caller = c /\ a.pc = "getMessages"
       /\ IF receiveOutcome(seenBy(a.parents), a.message, now) = "ok"
          THEN /\ Proceeds(c, [a EXCEPT !.pc = "addMessage"])
               /\ data' = [data EXCEPT !["A"] = addMessage(@, a.message)]
          ELSE /\ Proceeds(c, [a EXCEPT !.pc = "returned",
                                        !.result = "BanError"])
               /\ UNCHANGED data
  /\ UNCHANGED <<now, last, incoming, map, promises, settled, call, answer>>
  /\ UNCHANGED syncVars
  /\ UNCHANGED protocolVars

\* receive resumes after addMessage: it resolves the incoming-message and
\* the update wait-list and returns true
AfterAddMessage(c) ==
  /\ \E a \in calls :
       /\ a.caller = c /\ a.pc = "addMessage"
       /\ Proceeds(c, [a EXCEPT !.pc = "returned", !.result = "true"])
       /\ incoming' = Append(incoming, a.message.hash)
  /\ UNCHANGED <<data, now, last, map, promises, settled, call, answer>>
  /\ UNCHANGED syncVars
  /\ UNCHANGED protocolVars

NextOverlap ==
  \E c \in Callers :
    \/ CallReceive(c)
    \/ AfterHasMessage(c)
    \/ AfterGetMessages(c)
    \/ AfterAddMessage(c)

SpecOverlap == Init /\ [][NextOverlap]_vars

(***************************************************************************)
(* The WaitList of utils.js on its own: tasks wait on ids, ids are         *)
(* resolved, entries are cancelled, in any order.  A WaitList is the       *)
(* record                                                                  *)
(*   map      - the pairs id => elem; an elem is known by the number of    *)
(*              the promise its resolve and reject settle                  *)
(*   promises - the promises of the entries wait() has returned, in order  *)
(*   settled  - the numbers of the promises settled so far, in order       *)
(***************************************************************************)
\* the ids tasks wait on, and the results they are resolved with
Ids == {"x", "y"}
Results == {1, 2}

\* Map.has on WaitList.map
mapHas(w, id) == \E e \in w.map : e.id = id

\* Map.delete on WaitList.map
mapDelete(w, id) == { e \in w.map : e.id # id }

\* settling promise k: a promise that is settled already stays as it is
settle(w, k, state, value) ==
  IF w.promises[k].state # "pending" THEN w
  ELSE [w EXCEPT !.promises[k].state = state,
                 !.promises[k].value = value,
                 !.settled = Append(@, k)]

\* WaitList.wait(id)
wait(w, id) ==
  LET k == Len(w.promises) + 1
  IN  [w EXCEPT
         !.promises = Append(@, [id |-> id, state |-> "pending", value |-> 0]),
         !.map = mapDelete(w, id) \cup {[id |-> id, elem |-> k]}]

\* elem.resolve(result) of the elem of promise k, created by wait(id)
elemResolve(w, k, result) ==
  settle([w EXCEPT !.map = mapDelete(w, w.promises[k].id)],
         k, "resolved", result)

\* elem.reject(error) of the elem of promise k
elemReject(w, k) ==
  settle([w EXCEPT !.map = mapDelete(w, w.promises[k].id)],
         k, "rejected", 0)

\* a resolve that settles the waiter and leaves its elem in the map
resolveKeeping(w, id, result) ==
  IF ~mapHas(w, id) THEN w
  ELSE settle(w, (CHOOSE e \in w.map : e.id = id).elem, "resolved", result)

\* WaitList.resolve(id, result)
resolve(w, id, result) ==
  IF ~mapHas(w, id) THEN w
  ELSE elemResolve(w, (CHOOSE e \in w.map : e.id = id).elem, result)

\* WaitListEntry.cancel() of the entry of promise k
cancel(w, k) ==
  IF ~mapHas(w, w.promises[k].id) THEN w
  ELSE elemReject(w, k)

\* the WaitList of the state
waitList == [map |-> map, promises |-> promises, settled |-> settled]

\* the WaitList becomes w after the call c
WaitListBecomes(w, c) ==
  /\ map' = w.map
  /\ promises' = w.promises
  /\ settled' = w.settled
  /\ call' = c
  /\ UNCHANGED <<data, now, last, calls, incoming, answer>>
  /\ UNCHANGED syncVars
  /\ UNCHANGED protocolVars

\* a task calls wait(id)
Wait ==
  /\ Len(promises) < MaxWaits
  /\ \E id \in Ids :
       WaitListBecomes(wait(waitList, id),
               [op |-> "wait", id |-> id, entry |-> Len(promises) + 1,
                value |-> 0])

\* a task calls resolve(id, result)
Resolve ==
  \E id \in Ids, result \in Results :
    WaitListBecomes(resolve(waitList, id, result),
            [op |-> "resolve", id |-> id, entry |-> 0, value |-> result])

\* a task calls cancel() on the entry of promise k
Cancel ==
  \E k \in DOMAIN promises :
    WaitListBecomes(cancel(waitList, k),
            [op |-> "cancel", id |-> promises[k].id, entry |-> k,
             value |-> 0])

NextWaitList == Wait \/ Resolve \/ Cancel

SpecWaitList == Init /\ [][NextWaitList]_vars

(***************************************************************************)
(* The query and bulk services of a channel on their own: the storage      *)
(* holds any messages (Memory.addMessage takes what it is given), and the  *)
(* services are asked with any cursor, direction, limit and hash list.     *)
(***************************************************************************)
\* what the storage may hold under hash h: a message of any height, on no
\* parent or on the message of the hash before
Storable(h) ==
  { m \in MessagesOf(h) :
      /\ m.timestamp = Tick(0) /\ m.body = "json"
      /\ m.chain = <<>> /\ m.signer = "root" /\ m.jsonLength = 2
      /\ m.parents \subseteq {h - 1} }

RECURSIVE addEach(_, _, _, _)
\* Memory.addMessage of pick[h] for each h of `keep` from hash h on, in turn
addEach(store, pick, keep, h) ==
  IF h > MaxHash THEN store
  ELSE addEach(IF h \in keep THEN addMessage(store, pick[h]) ELSE store,
               pick, keep, h + 1)

\* the cursors of a query: a hash, or a height
Cursors ==
  { [hash |-> h, height |-> 0] : h \in Hashes }
  \cup { [hash |-> Null, height |-> ht] : ht \in 0..MaxHeight }

\* the hash lists of a bulk request
HashLists == UNION { [1..n -> Hashes] : n \in 0..(maxBulkCount + 1) }

\* Channel.query(cursor, isBackward, limit) is called
Query ==
  /\ \E cursor \in Cursors, isBackward \in BOOLEAN,
        limit \in 0..(maxQueryLimit + 1) :
       LET response == channelQuery(data["A"], cursor, isBackward, limit)
       IN  answer' = [NoAnswer EXCEPT
                        !.op = "query", !.cursor = cursor,
                        !.isBackward = isBackward, !.limit = limit,
                        !.messages = response.abbreviatedMessages,
                        !.forwardHash = response.forwardHash,
                        !.backwardHash = response.backwardHash,
                        !.error = response.error]
  /\ UNCHANGED <<data, now, last, calls, incoming, map, promises, settled,
                 call>>
  /\ UNCHANGED syncVars
  /\ UNCHANGED protocolVars

\* Channel.bulk(hashes) is called
Bulk ==
  /\ \E hashes \in HashLists :
       LET response == channelBulk(data["A"], hashes)
       IN  answer' = [NoAnswer EXCEPT
                        !.op = "bulk", !.hashes = hashes,
                        !.messages = [i \in 1..Len(response.messages) |->
                                        abbreviate(response.messages[i])],
                        !.forwardIndex = response.forwardIndex]
  /\ UNCHANGED <<data, now, last, calls, incoming, map, promises, settled,
                 call>>
  /\ UNCHANGED syncVars
  /\ UNCHANGED protocolVars

\* the storage holds at most one message per hash
InitQuery ==
  /\ \E keep \in SUBSET Hashes,
        pick \in [Hashes -> UNION { Storable(h) : h \in Hashes }] :
       /\ \A h \in Hashes : pick[h].hash = h
       /\ data = [p \in Peers |->
                    IF p = "A" THEN addEach(EmptyData, pick, keep, 1)
                    ELSE EmptyData]
  /\ now = Tick(0)
  /\ last = NoCall
  /\ InitAgents
  /\ notified = [p \in Peers |-> FALSE]
  /\ InitOther

NextQuery == Query \/ Bulk

SpecQuery == InitQuery /\ [][NextQuery]_vars

(***************************************************************************)
(* Properties of the store.                                                *)
(***************************************************************************)
\* the channel the store properties are about
channel == data["A"]

StoredHashes == { m.hash : m \in channel.messageByHash }

Roots == { m \in channel.messageByHash : m.parents = {} }

\* C2: Uniqueness of root -- a channel stores at most one message with an
\* empty parent list (a second root-shaped message is not stored).
C2_UniqueRoot == Cardinality(Roots) <= 1

C4_LeavesClosure ==
  /\ Range(channel.leaves) =
       StoredHashes \ UNION { m.parents : m \in channel.messageByHash }
  /\ Cardinality(Range(channel.leaves)) = Len(channel.leaves)

\* two leaves that share a stored parent, the second one posted
C4_Witness ==
  /\ last.op = "post" /\ last.outcome = "ok"
  /\ Len(channel.leaves) = 2
  /\ \E m \in channel.messageByHash : m.hash \notin Range(channel.leaves)

\* m comes before n in the order (height ascending, then hash ascending)
Before(m, n) ==
  m.height < n.height \/ (m.height = n.height /\ m.hash < n.hash)

\* the one arrangement of the set S in that order
Linearization(S) ==
  [i \in 1..Cardinality(S) |->
     CHOOSE m \in S : Cardinality({ n \in S : Before(n, m) }) = i - 1]

\* C5: CRDT linear order -- getMessageAtOffset(0..count-1) is sorted by
\* (height, hash), holds every stored message exactly once, and is the
\* arrangement that the set of stored messages alone determines.
C5_LinearOrder ==
  LET count == getMessageCount(channel)
      at(i) == getMessageAtOffset(channel, i)
  IN  /\ \A i, j \in 0..(count - 1) : i < j => Before(at(i), at(j))
      /\ { at(i) : i \in 0..(count - 1) } = channel.messageByHash
      /\ count = Cardinality(channel.messageByHash)
      /\ channel.messages = Linearization(channel.messageByHash)

\* three messages were added, the last one not the last of the order
C5_Witness ==
  /\ last.op = "addMessage" /\ last.outcome = "ok"
  /\ getMessageCount(channel) = 3
  /\ channel.leaves # <<>>
  /\ getMessageAtOffset(channel, 2).hash # channel.leaves[Len(channel.leaves)]

\* C6: Idempotence of receive -- receiving a stored message returns false
\* and changes nothing (count, order, leaves); receiving any message twice
\* leaves the store as receiving it once does; so does addMessage.
C6_Idempotent ==
  \A m \in InputMessages(channel.messageByHash) :
    LET once == receive(channel, m, now)
    IN  /\ receive(once, m, now) = once
        /\ hasMessage(once, m.hash) =>
             /\ receiveOutcome(once, m, now) = "duplicate"
             /\ addMessage(once, m) = once

\* a message already stored was received again
C6_Witness ==
  /\ last.op = "receive" /\ last.outcome = "duplicate"
  /\ getMessageCount(channel) >= 2

\* C7: Monotone timestamp -- a stored message's timestamp is at least the
\* timestamp of each of its parents, and the message post just returned
\* carries the caller's timestamp, raised to the largest parent timestamp
\* when that is later.
C7_MonotoneTimestamp ==
  /\ \A m, p \in channel.messageByHash :
       p.hash \in m.parents => m.timestamp >= p.timestamp
  /\ (last.op = "post" /\ last.outcome = "ok") =>
       LET m == getMessage(channel, last.hash)
           later == { p \in channel.messageByHash :
                       p.hash \in m.parents /\ p.timestamp > last.timestamp }
       IN  IF later = {} THEN m.timestamp = last.timestamp
           ELSE /\ \E p \in later : m.timestamp = p.timestamp
                /\ \A p \in later : m.timestamp >= p.timestamp

\* post was called with a timestamp earlier than a leaf's and raised it
C7_Witness ==
  /\ last.op = "post" /\ last.outcome = "ok"
  /\ getMessage(channel, last.hash).timestamp > last.timestamp

(***************************************************************************)
(* Properties of synchronization.                                          *)
(***************************************************************************)
hashesOf(p) == { m.hash : m \in data[p].messageByHash }

\* both stores hold the same message hashes and the same leaves
SameStore ==
  /\ hashesOf("A") = hashesOf("B")
  /\ Range(data["A"].leaves) = Range(data["B"].leaves)

\* the session is open, every trigger of synchronize() has been delivered,
\* each side has run channel.sync, and every run has returned: nothing is
\* left to happen unless a message is posted
Settled ==
  /\ connected
  /\ \A p \in Peers :
       /\ ~notified[p]
       /\ agent[p].started >= 1
       /\ agent[p].state = "idle"
       /\ runs[p] = {}
       /\ pendingRequests[p] = {}

\* C1: Convergence -- two connected peers that share a channel, with no
\* message posted any more and synchronization triggered on both sides and
\* run to completion, hold the same message hashes and the same leaf set
\* (once every triggered run has completed, both stores are the same).
C1_Convergence == Settled => SameStore

\* C8: No concurrent runs -- at most one run of channel.sync per agent is
\* in progress, for any interleaving of synchronize() calls.
C8_SingleRun == \A p \in Peers : Cardinality(runs[p]) <= 1

\* a synchronize() call reaches peer p in this step
Called(p) == notified[p] /\ ~notified'[p]

\* the run r of peer p is no longer in progress after this step
Finished(p, r) == \A s \in runs'[p] : s.id # r.id

\* C9: Coalescing -- when a run finishes during which k >= 1 synchronize()
\* calls arrived, those calls have started no run and exactly one further
\* run is started at that moment; a synchronize() call made while the state
\* is pending changes nothing of the agent.
C9_Coalescing ==
  [][\A p \in Peers :
       /\ (Called(p) /\ agent[p].state = "pending") =>
            /\ agent'[p] = agent[p]
            /\ pendingRequests'[p] = pendingRequests[p]
            /\ Cardinality(runs'[p]) = Cardinality(runs[p])
       /\ \A r \in runs[p] :
            (Finished(p, r) /\ r.callsDuring >= 1) =>
              /\ r.startedDuring = 0
              /\ agent'[p].started = agent[p].started + 1]_vars

\* the entries of p's map that this step deletes
Deleted(p) ==
  { e \in pendingRequests[p] :
      \A f \in pendingRequests'[p] : f.seq # e.seq }

\* C10: Response matching -- a response resolves (and so removes) a pending
\* request only when that request has the response's seq and type, in any
\* order of arrival; a response whose seq is not pending or whose type
\* differs raises a BanError and resolves or removes no pending request.
C10_ResponseMatching ==
  [][\A p \in Peers :
       /\ \A e \in Deleted(p) :
            packet' = [peer |-> p, seq |-> e.seq, type |-> e.type,
                       outcome |-> "resolve"]
       /\ (packet' # packet /\ packet'.peer = p) =>
            IF \E e \in pendingRequests[p] :
                 e.seq = packet'.seq /\ e.type = packet'.type
            THEN /\ packet'.outcome = "resolve"
                 /\ Cardinality(Deleted(p)) = 1
            ELSE /\ packet'.outcome = "BanError"
                 /\ pendingRequests' = pendingRequests
                 /\ runs' = runs
                 /\ data' = data]_vars

\* a bulk response came under the seq of a pending query (or the reverse)
\* while an earlier request was pending too: the agent threw and both
\* requests are still pending
C10_Witness ==
  /\ packet.outcome = "BanError"
  /\ \E e, f \in pendingRequests[packet.peer] :
       e.seq = packet.seq /\ e.type # packet.type /\ f.seq # e.seq

\* the step resolves a pending request of p because its timer fired
TimedOut(p) ==
  packet' # packet /\ packet'.peer = p /\ packet'.outcome = "timeout"

\* C11: Timeout is not a ban -- when the timer of a query or of a bulk
\* request fires, the request is resolved (its entry is deleted), the run
\* goes on as for an empty response, and no BanError is raised and no
\* session is ended as a consequence, for either request type.
C11_TimeoutIsNotABan ==
  [][\A p \in Peers :
       TimedOut(p) =>
         /\ \E e \in Deleted(p) : e.seq = packet'.seq /\ e.type = packet'.type
         /\ thrown'.error # "BanError"
         /\ connected']_vars

\* the step hands p's run, in a bulk response, a message whose signature
\* fails verification
BadDelivery(p) ==
  /\ packet' # packet /\ packet'.peer = p /\ packet'.outcome = "resolve"
  /\ \E e \in Deleted(p) :
       /\ e.type = "bulk"
       /\ \E m \in Range(channelBulk(data[remote(p)],
                                      e.request.hashes).messages) :
            ~verify(m, now)

\* C12: Ban on bad message -- when a bulk response delivers a message whose
\* signature fails verification, the receiving Peer sends the error packet
\* and closes the socket (the session is over), and the receiver's storage
\* is unchanged.
C12_BanOnBadMessage ==
  [][\A p \in Peers :
       BadDelivery(p) => ~connected' /\ data'[p] = data[p]]_vars

\* the step raises at p an error that is not a BanError, in the packet loop
\* or out of synchronize()
NonBanError(p) ==
  \/ packet' # packet /\ packet'.peer = p /\ packet'.outcome = "Error"
  \/ thrown' # thrown /\ thrown'.peer = p /\ thrown'.error = "Error"

\* C13: Non-ban errors do not terminate the session -- when an error that
\* is not a BanError is raised while a Peer handles a packet or
\* synchronizes, the session stays open (the loop runs, the socket is open,
\* the peer is in the peer set).
C13_NonBanKeepsSession ==
  [][\A p \in Peers : NonBanError(p) => connected']_vars

\* C14: Close fails in-flight requests -- once the peers are destroyed no
\* request is pending in any of their agents and no run of channel.sync is
\* waiting for a response.
C14_CloseFailsRequests ==
  ~connected =>
    \A p \in Peers : pendingRequests[p] = {} /\ runs[p] = {}

\* C15: Channel acceptance is serialized -- of the calls of receive made
\* for one not-yet-stored message at most one returns true (the others
\* return false), and the incoming-message and update wait-lists are
\* resolved once for that message.
C15_SerializedAcceptance ==
  /\ \A a, b \in calls :
       (/\ a.caller # b.caller
        /\ a.message.hash = b.message.hash
        /\ a.pc = "returned" /\ b.pc = "returned"
        /\ ~a.duplicate /\ ~b.duplicate)
       => ~(a.result = "true" /\ b.result = "true")
  /\ \A i, j \in DOMAIN incoming : incoming[i] = incoming[j] => i = j

\* the promises that wait on id, lowest number (earliest wait) first
waiting(id) ==
  SelectSeq([k \in 1..Len(promises) |-> k],
            LAMBDA k : promises[k].id = id /\ promises[k].state = "pending")

\* C16: Wait-list fan-out -- when an id on which several tasks wait is
\* resolved, every one of those waiters is resolved with the value of that
\* call, in the order in which they started waiting; no earlier waiter is
\* lost when a later one registers on the same id.
C16_FanOut ==
  [][(call' # call /\ call'.op = "resolve") =>
       /\ \A k \in DOMAIN promises :
            (promises[k].id = call'.id /\ promises[k].state = "pending")
            => /\ promises'[k].state = "resolved"
               /\ promises'[k].value = call'.value
       /\ settled' = settled \o waiting(call'.id)]_vars

\* the entry of promise k is registered: its elem is in the map
registered(m, k) == \E e \in m : e.elem = k

\* C17: Wait-list cancellation -- cancel() on an entry rejects that entry's
\* promise and removes the entry; cancel() again, or after the entry was
\* resolved, has no effect; and cancelling one entry never rejects, removes
\* or orphans the entry of another waiter.
C17_Cancellation ==
  [][(call' # call /\ call'.op = "cancel") =>
       LET k == call'.entry
       IN  /\ promises[k].state = "pending"
                => promises'[k].state = "rejected" /\ ~registered(map', k)
           /\ promises[k].state # "pending"
                => map' = map /\ promises' = promises /\ settled' = settled
           /\ \A j \in DOMAIN promises :
                j # k => /\ promises'[j] = promises[j]
                         /\ registered(map, j) => registered(map', j)]_vars

\* the linearization the query service answers from
served == data["A"].messages

\* the message at position k of the linearization is the one the cursor of
\* the last query names: by its hash, or by its height after the clamp to
\* the lowest leaf height
named(k) ==
  IF answer.cursor.hash # Null THEN served[k].hash = answer.cursor.hash
  ELSE served[k].height =
         Min(answer.cursor.height, getMinLeafHeight(data["A"]))

\* the cursor of the last query resolves to an index
resolves == \E k \in 1..Len(served) : named(k)

\* the index i (from 0) the cursor resolves to
cursorIndex ==
  (CHOOSE k \in 1..Len(served) :
     named(k) /\ \A j \in 1..(k - 1) : ~named(j)) - 1

\* the limit L of the last query
cappedLimit == Min(answer.limit, maxQueryLimit)

\* the offsets [sliceStart, sliceEnd) of the slice the last query is to give
sliceStart ==
  IF answer.isBackward THEN Max(0, cursorIndex - cappedLimit) ELSE cursorIndex

sliceEnd ==
  IF answer.isBackward THEN cursorIndex
  ELSE Min(Len(served), cursorIndex + cappedLimit)

\* C18: Query slice -- for a cursor that resolves to index i, query returns
\* exactly m[i .. min(n, i+L)) when forward and m[max(0, i-L) .. i) when
\* backward, in linear order, where L = min(requested limit, maxQueryLimit).
C18_QuerySlice ==
  (answer.op = "query" /\ resolves) =>
    /\ ~answer.error
    /\ Len(answer.messages) = sliceEnd - sliceStart
    /\ \A k \in 1..Len(answer.messages) :
         answer.messages[k].hash = served[sliceStart + k].hash

\* C19: Query cursors -- in every query result forwardHash is the hash of
\* the message right after the returned slice, or null when the slice ends
\* at the last message; backwardHash is the hash of the first returned
\* message when the slice does not start at offset 0, and null when it does.
C19_QueryCursors ==
  (answer.op = "query" /\ ~answer.error /\ resolves) =>
    /\ answer.forwardHash =
         IF sliceEnd = Len(served) THEN Null ELSE served[sliceEnd + 1].hash
    /\ answer.backwardHash =
         IF sliceStart = 0 THEN Null ELSE answer.messages[1].hash

\* a query returned a slice with a message before it and a message after it
C19_Witness ==
  /\ answer.op = "query" /\ ~answer.error /\ resolves
  /\ Len(answer.messages) >= 1
  /\ answer.forwardHash # Null
  /\ answer.backwardHash # Null

\* the hashes of the last bulk request that were processed
taken == SubSeq(answer.hashes, 1, Min(Len(answer.hashes), maxBulkCount))

\* C20: Bulk service -- bulk(hashes) processes the first
\* min(len(hashes), maxBulkCount) hashes, returns exactly those of them that
\* are stored, in input order, and forwardIndex is the number processed.
C20_BulkService ==
  answer.op = "bulk" =>
    LET present == SelectSeq(taken, LAMBDA h : hasMessage(data["A"], h))
    IN  /\ answer.forwardIndex = Len(taken)
        /\ Len(answer.messages) = Len(present)
        /\ \A k \in 1..Len(present) : answer.messages[k].hash = present[k]

\* a bulk request longer than maxBulkCount, some of whose processed hashes
\* are stored and some are not
C20_Witness ==
  /\ answer.op = "bulk"
  /\ Len(answer.hashes) > maxBulkCount
  /\ Len(answer.messages) >= 1
  /\ Len(answer.messages) < answer.forwardIndex

\* the step resolves a pending query of p with a response that carries more
\* than maxQueryLimit abbreviated messages
Overflowed(p) ==
  packet' # packet /\ packet'.peer = p /\ packet'.outcome = "overflow"

\* C21: Query response overflow -- when a query response carries more than
\* maxQueryLimit abbreviated messages, Channel.sync fails with a BanError
\* (not with another kind of error), no bulk request is issued for the
\* response's messages and the store is unchanged.
C21_OverflowIsABan ==
  [][\A p \in Peers :
       Overflowed(p) =>
         /\ thrown'.peer = p /\ thrown'.error = "BanError"
         /\ pendingRequests'[p] \subseteq pendingRequests[p]
         /\ data'[p] = data[p]]_vars

\* C25: Chain length 0 is for the root only -- Channel.receive rejects every
\* message that has parents and an empty chain; only the root message may be
\* signed directly by the channel's root key.
C25_EmptyChainOnlyForRoot ==
  \A m \in InputMessages(channel.messageByHash) :
    (m.parents # {} /\ m.chain = <<>>) =>
      receiveOutcome(channel, m, now) # "ok"

(***************************************************************************)
(* Two connected peers whose agents have sent all but the last two of the  *)
(* 2^32 seq values: A holds a chain of three messages that B fetches in    *)
(* two rounds of query and bulk, so the seq wraps while B synchronizes.    *)
(***************************************************************************)
\* the largest seq, 2^32 - 1
MaxSeq == seqOf(65535, 65535)

\* the store of the channel's creator after two posts
chainOfThree ==
  post(post(fromIdentity, 2, Tick(0), 2, identityOf("A")),
       3, Tick(0), 2, identityOf("A"))

InitSeq ==
  /\ data = [p \in Peers |-> IF p = "A" THEN chainOfThree ELSE EmptyData]
  /\ now = Tick(0)
  /\ last = NoCall
  /\ \E start \in {seqOf(65535, 65534), MaxSeq} :
       agent = [p \in Peers |-> [newAgent EXCEPT !.seq = start]]
  /\ runs = [p \in Peers |-> {}]
  /\ pendingRequests = [p \in Peers |-> {}]
  /\ packet = NoPacket
  /\ connected = TRUE
  /\ thrown = NoThrow
  /\ notified = [p \in Peers |-> TRUE]
  /\ InitOther

NextSeq ==
  \E p \in Peers :
    \/ Notification(p)
    \/ QueryResponse(p)
    \/ BulkResponse(p)
    \/ StrayResponse(p)

SpecSeq == InitSeq /\ [][NextSeq]_vars

\* the entries that this step adds to p's map
Registered(p) ==
  { e \in pendingRequests'[p] :
      \A f \in pendingRequests[p] : f.seq # e.seq \/ f.run # e.run }

\* C28: Seq allocation -- a request is sent under the agent's seq and the
\* agent's seq becomes that value plus 1 modulo 2^32 (0 after 2^32 - 1); the
\* seq a request is sent under is not the seq of a request still pending;
\* and a response under a seq resolves the request sent under that seq, also
\* after the wrap.
C28_SeqAllocation ==
  [][\A p \in Peers :
       /\ \A e \in Registered(p) :
            /\ e.seq = agent[p].seq
            /\ \A f \in pendingRequests[p] : f.seq # e.seq
            /\ agent'[p].seq.lo = (agent[p].seq.lo + 1) % 65536
            /\ agent'[p].seq.hi =
                 (agent[p].seq.hi + IF agent[p].seq.lo = 65535 THEN 1 ELSE 0)
                   % 65536
       /\ (Registered(p) = {}) => agent'[p].seq = agent[p].seq
       /\ (packet' # packet /\ packet'.peer = p
             /\ packet'.outcome = "resolve") =>
            \E e \in Deleted(p) :
              /\ e.seq = packet'.seq /\ e.type = packet'.type
              /\ \A f \in pendingRequests[p] \ {e} :
                   f \in pendingRequests'[p]]_vars

\* a request sent under seq 0 after the wrap was resolved by its response,
\* and the agent went on to seq 1 and beyond
C28_Witness ==
  /\ packet.outcome = "resolve"
  /\ packet.seq = seqOf(0, 0)
  /\ agent[packet.peer].seq.hi = 0 /\ agent[packet.peer].seq.lo >= 1
  /\ hashesOf(packet.peer) # {}

(***************************************************************************)
(* Two connected peers whose stores have diverged.  A holds the root, x on *)
(* the root and y on x.  B holds the root, x, p1 (and possibly p2) on the  *)
(* root, q on p1 (and p2), and z on x.  A's incremental sync starts at     *)
(* height 2 and is answered with q and z: z is fetched, and q leaves one   *)
(* or two hashes unresolved.                                               *)
(***************************************************************************)
posted(hash, parents, height) ==
  [hash |-> hash, parents |-> parents, height |-> height,
   timestamp |-> Tick(0), body |-> "json", chain |-> <<GoodLink>>,
   signer |-> "k1", jsonLength |-> 2]

RECURSIVE addAll(_, _)
\* Memory.addMessage for each message of a sequence
addAll(store, messages) ==
  IF messages = <<>> THEN store
  ELSE addAll(addMessage(store, Head(messages)), Tail(messages))

divergedA ==
  addAll(fromIdentity, <<posted(4, {1}, 1), posted(5, {4}, 2)>>)

divergedB(parentsOfQ) ==
  addAll(fromIdentity,
         <<posted(2, {1}, 1)>>
         \o (IF 3 \in parentsOfQ THEN <<posted(3, {1}, 1)>> ELSE <<>>)
         \o <<posted(4, {1}, 1), posted(6, parentsOfQ, 2),
              posted(7, {4}, 2)>>)

InitFallback ==
  /\ \E parentsOfQ \in {{2}, {2, 3}} :
       data = [p \in Peers |->
                 IF p = "A" THEN divergedA ELSE divergedB(parentsOfQ)]
  /\ now = Tick(0)
  /\ last = NoCall
  /\ InitAgents
  /\ notified = [p \in Peers |-> TRUE]
  /\ InitOther

SpecFallback == InitFallback /\ [][NextQuiet]_vars

\* the number of messages p held when the session opened
heldAtFirst(p) ==
  IF p = "A" THEN getMessageCount(divergedA)
  ELSE getMessageCount(divergedB(getMessage(data["B"], 6).parents))

\* the request a run waits for
requestOf(p, run) ==
  (CHOOSE e \in pendingRequests'[p] : e.run = run.id).request

\* C22: Full-sync fallback -- an incremental run never goes on with more
\* than maxUnresolvedCount unresolved hashes: the step that would take it
\* there restarts the run as a full sync, with the query cursor {height: 0},
\* isFull = true and nothing unresolved; and the count of a run, before and
\* after the fallback and when it returns, is the number of messages it has
\* stored (those before the fallback plus those of the full sync).
C22_FullSyncFallback ==
  [][\A p \in Peers : \A r \in runs[p] :
       LET count == getMessageCount(data[p])
           count1 == getMessageCount(data'[p])
       IN  /\ r.delta = count - heldAtFirst(p)
           /\ \A s \in runs'[p] :
                /\ s.delta = count1 - heldAtFirst(p)
                /\ ~s.isFull => Cardinality(s.unresolved) <= maxUnresolvedCount
                /\ (s.id = r.id /\ ~r.isFull /\ s.isFull) =>
                     /\ requestOf(p, s).cursor = [hash |-> Null, height |-> 0]
                     /\ ~requestOf(p, s).isBackward
                     /\ s.unresolved = {}
                     /\ s.delta = r.delta + (count1 - count)
                /\ (s.id = r.id /\ r.isFull) => s.isFull
           /\ ((\A s \in runs'[p] : s.id # r.id) /\ thrown' = NoThrow) =>
                r.delta + (count1 - count) = count1 - heldAtFirst(p)]_vars

\* A's run fell back to a full sync after it had stored z, and the full
\* sync has stored more
C22_Witness ==
  \E r \in runs["A"] :
    /\ r.isFull
    /\ hasMessage(data["A"], 7)
    /\ r.delta >= 2
    /\ thrown = NoThrow

(***************************************************************************)
(* Links on their own: the Link constructor is called with any options, as *)
(* Link.deserialize calls it with what a decoded link carries.             *)
(***************************************************************************)
DAY == 24 * 3600
EXPIRATION_DELTA == 99 * DAY
MAX_DISPLAY_NAME_LENGTH == 128

\* sodium.crypto_sign_BYTES and sodium.crypto_sign_PUBLICKEYBYTES
crypto_sign_BYTES == 64
crypto_sign_PUBLICKEYBYTES == 32

\* the Link constructor: "Link" when it returns, else the error it throws
newLink(options) ==
  IF options.nameLength = 0 THEN "BanError"
  ELSE IF options.nameLength > MAX_DISPLAY_NAME_LENGTH THEN "BanError"
  ELSE IF options.signatureLength # crypto_sign_BYTES THEN "BanError"
  ELSE IF options.keyLength # crypto_sign_PUBLICKEYBYTES THEN "BanError"
  ELSE "Link"

\* the windows, name lengths, signature lengths and key lengths a decoded
\* link may carry
LinkOptions ==
  [validFrom : {0, DAY},
   validTo : {0, DAY, 2 * DAY, DAY + EXPIRATION_DELTA,
              DAY + EXPIRATION_DELTA + 1, 2 * EXPIRATION_DELTA},
   nameLength : {0, 1, MAX_DISPLAY_NAME_LENGTH, MAX_DISPLAY_NAME_LENGTH + 1},
   signatureLength : {crypto_sign_BYTES - 1, crypto_sign_BYTES},
   keyLength : {crypto_sign_PUBLICKEYBYTES, crypto_sign_PUBLICKEYBYTES + 1}]

\* a call of Link.deserialize(decoded), which calls the constructor
Deserialize ==
  /\ \E options \in LinkOptions :
       link' = [validFrom |-> options.validFrom, validTo |-> options.validTo,
                nameLength |-> options.nameLength,
                signatureLength |-> options.signatureLength,
                keyLength |-> options.keyLength,
                outcome |-> newLink(options)]
  /\ UNCHANGED <<data, now, last>>
  /\ UNCHANGED syncVars
  /\ UNCHANGED <<calls, incoming, map, promises, settled, call, answer>>
  /\ UNCHANGED <<peers, conn, sentError, closing, channels, identities,
                 storage, reloaded>>

SpecLink == Init /\ [][Deserialize]_vars

\* C26: Link validity invariant -- every Link that the constructor returned
\* (deserialized from the wire or built locally) has validTo > validFrom and
\* validTo - validFrom <= 99 days; options that break either bound are
\* rejected.
C26_LinkWindow ==
  link.outcome = "Link" =>
    /\ link.validTo > link.validFrom
    /\ link.validTo - link.validFrom <= EXPIRATION_DELTA

(***************************************************************************)
(* The Protocol's connections: Protocol.connect is called once with each   *)
(* socket, the remote end sends any Hello and then any packets, a socket   *)
(* may fail at any time, and Protocol.close() is called once.              *)
(***************************************************************************)
VERSION == 1
MAX_ERROR_REASON_LEN == 1024
ID_LENGTH == 32

\* the packets one loop dispatches in the model
MaxPackets == 2

\* what a remote end may send as its Hello
Hellos == [version : {0, 1, 2}, idLength : {ID_LENGTH - 1, ID_LENGTH, ID_LENGTH + 1}]

\* the reason lengths, in bytes, an error packet from the remote may carry
ReasonLengths ==
  {0, 6, MAX_ERROR_REASON_LEN - 11, MAX_ERROR_REASON_LEN - 10,
   MAX_ERROR_REASON_LEN, MAX_ERROR_REASON_LEN + 1}

\* the number of decimal digits of a small number
digits(n) == IF n < 10 THEN 1 ELSE 2

\* a handshake that checks the version alone
readyAnyLength(hello) ==
  IF hello.version # VERSION
  THEN [threw |-> TRUE, message |-> 30 + digits(hello.version)]
  ELSE [threw |-> FALSE, message |-> 0]

\* Peer.ready once the remote's Hello is decoded: whether it throws, and the
\* length of the Error's message ('Unsupported protocol version: ' and
\* 'Invalid remote peer id length: ' followed by the number)
ready(hello) ==
  IF hello.version # VERSION
  THEN [threw |-> TRUE, message |-> 30 + digits(hello.version)]
  ELSE IF hello.idLength # ID_LENGTH
  THEN [threw |-> TRUE, message |-> 31 + digits(hello.idLength)]
  ELSE [threw |-> FALSE, message |-> 0]

\* the case 'error' of Peer.loop: the length of the message of the Error it
\* throws, 'Got error: ' followed by the reason cut to MAX_ERROR_REASON_LEN
gotError(reasonLength) == 11 + Min(reasonLength, MAX_ERROR_REASON_LEN)

\* nothing but the connections changes
ConnectFrame ==
  /\ UNCHANGED <<data, now, last>>
  /\ UNCHANGED syncVars
  /\ UNCHANGED <<calls, incoming, map, promises, settled, call, answer>>
  /\ UNCHANGED <<link, channels, identities, storage, reloaded>>

\* Peer.destroy(reason) on socket s: the error packet carries the reason as
\* it is; a send on a closed socket fails and the failure is swallowed
destroy(s, reasonLength) ==
  IF conn[s].open THEN [socket |-> s, reason |-> reasonLength] ELSE sentError

\* the catch and the finally of Protocol.connect after ready() or loop()
\* threw an error with a message of `messageLength` bytes
Caught(s, c, messageLength) ==
  /\ sentError' = destroy(s, messageLength)
  /\ conn' = [c EXCEPT ![s].pc = "returned", ![s].open = FALSE]
  /\ peers' = peers \ {s}
  /\ UNCHANGED closing

\* Protocol.connect(socket) up to the await of the remote's Hello
Connect(s) ==
  /\ conn[s].pc = "none"
  /\ closing.state = "idle"
  /\ conn' = [conn EXCEPT ![s].pc = "ready"]
  /\ UNCHANGED <<peers, sentError, closing>>
  /\ ConnectFrame

\* the remote's Hello arrives: Peer.ready returns and connect goes on to the
\* loop, or ready throws and connect destroys the peer
Hello(s) ==
  /\ conn[s].pc = "ready"
  /\ \E hello \in Hellos :
       LET c == [conn EXCEPT ![s].hello = hello]
       IN  IF ready(hello).threw
           THEN Caught(s, c, ready(hello).message)
           ELSE /\ peers' = peers \cup {s}
                /\ conn' = [c EXCEPT ![s].pc = "loop", ![s].resolved = TRUE]
                /\ UNCHANGED <<sentError, closing>>
  /\ ConnectFrame

\* Peer.loop is handed a packet that its handler deals with
Dispatch(s) ==
  /\ conn[s].pc = "loop" /\ conn[s].open
  /\ conn[s].dispatched < MaxPackets
  /\ conn' = [conn EXCEPT ![s].dispatched = @ + 1]
  /\ UNCHANGED <<peers, sentError, closing>>
  /\ ConnectFrame

\* Peer.loop is handed an error packet
ErrorPacket(s) ==
  /\ conn[s].pc = "loop" /\ conn[s].open
  /\ \E reasonLength \in ReasonLengths :
       Caught(s, conn, gotError(reasonLength))
  /\ ConnectFrame

\* Peer.loop is handed a packet of no supported type, or a handler throws a
\* BanError: the message is 'Unsupported packet type: undefined', or for
\* one 'Invalid message signature, or invalid chain'
Throws(s) ==
  /\ conn[s].pc = "loop" /\ conn[s].open
  /\ \E messageLength \in {34, 43} : Caught(s, conn, messageLength)
  /\ ConnectFrame

\* socket.receive() rejects, because the socket failed or because it was
\* closed: the error packet of destroy cannot be sent
Fail(s) ==
  /\ conn[s].pc \in {"ready", "loop"}
  /\ conn' = [conn EXCEPT ![s].pc = "returned", ![s].open = FALSE]
  /\ peers' = peers \ {s}
  /\ UNCHANGED <<sentError, closing>>
  /\ ConnectFrame

\* Protocol.close() up to its await: the set is copied and cleared
CloseStart ==
  /\ closing.state = "idle"
  /\ closing' = [state |-> "destroying", left |-> peers]
  /\ peers' = {}
  /\ UNCHANGED <<conn, sentError>>
  /\ ConnectFrame

\* peer.destroy('Closed') for one of the copied peers
DestroyOnClose(s) ==
  /\ closing.state = "destroying"
  /\ s \in closing.left
  /\ sentError' = destroy(s, 6)
  /\ conn' = [conn EXCEPT ![s].open = FALSE]
  /\ closing' = [closing EXCEPT !.left = @ \ {s}]
  /\ UNCHANGED peers
  /\ ConnectFrame

\* Promise.all is fulfilled and close() returns
CloseReturn ==
  /\ closing.state = "destroying"
  /\ closing.left = {}
  /\ closing' = [closing EXCEPT !.state = "returned"]
  /\ UNCHANGED <<peers, conn, sentError>>
  /\ ConnectFrame

NextConnect ==
  \/ \E s \in Sockets :
       \/ Connect(s)
       \/ Hello(s)
       \/ Dispatch(s)
       \/ ErrorPacket(s)
       \/ Throws(s)
       \/ Fail(s)
       \/ DestroyOnClose(s)
  \/ CloseStart
  \/ CloseReturn

SpecConnect == Init /\ [][NextConnect]_vars

\* the Hello that was received on s is one that Peer.ready accepts
goodHello(s) ==
  conn[s].hello.version = VERSION /\ conn[s].hello.idLength = ID_LENGTH

\* C23: Handshake gating -- a peer is in the peer set, its waiters are
\* resolved and its loop dispatches packets only after a Hello with version
\* 1 and a 32-byte peer id was received from it; after any other Hello
\* connect has destroyed the peer (the socket is closed, connect returned),
\* it is not in the set, no waiter was resolved and no packet dispatched.
C23_HandshakeGating ==
  \A s \in Sockets :
    /\ (s \in peers \/ conn[s].resolved \/ conn[s].dispatched > 0
          \/ conn[s].pc = "loop") => goodHello(s)
    /\ (conn[s].hello # NoPeer.hello /\ ~goodHello(s)) =>
         /\ conn[s].pc = "returned" /\ ~conn[s].open
         /\ s \notin peers
         /\ ~conn[s].resolved /\ conn[s].dispatched = 0

\* one socket passed the handshake and its loop has dispatched a packet,
\* the other sent a Hello with a 33-byte id and was destroyed for it
C23_Witness ==
  \E s, t \in Sockets :
    /\ s \in peers /\ conn[s].resolved /\ conn[s].dispatched >= 1
    /\ conn[t].hello = [version |-> VERSION, idLength |-> ID_LENGTH + 1]
    /\ conn[t].pc = "returned"
    /\ sentError = [socket |-> t, reason |-> 33]

\* C24: Peer-set lifecycle -- a peer is in the peer set only between the
\* end of its handshake and the exit of its loop; when connect() has
\* returned the peer is not in the set; and after close() has returned the
\* set is empty.
C24_PeerSetLifecycle ==
  /\ \A s \in peers : conn[s].pc = "loop"
  /\ \A s \in Sockets : conn[s].pc = "returned" => s \notin peers
  /\ closing.state = "returned" => peers = {}

\* C27: Error reason bound -- every error packet a Peer sends carries a
\* reason of at most MAX_ERROR_REASON_LEN bytes.
C27_ReasonBound == sentError.reason <= MAX_ERROR_REASON_LEN

(***************************************************************************)
(* The Protocol's identities and channels, and their persistence: any      *)
(* identities are created, channels are added from invites, the Protocol   *)
(* is saved, and a second Protocol over the same storage is loaded.        *)
(***************************************************************************)
\* the names identities are created with, in ascending order
Names == <<"1", "2">>

\* the channels the Protocol holds in the model
MaxChannels == 3

\* new Identity(name): a fresh key pair
newIdentity(name) ==
  [type |-> "Identity", name |-> name,
   publicKey |-> IF name = "1" THEN "k1" ELSE "k2", chars |-> "undefined"]

\* a string, as an element of Protocol.identities: it has no name and no
\* publicKey
string(chars) ==
  [type |-> "string", name |-> "undefined", publicKey |-> "undefined",
   chars |-> chars]

\* the Channel constructor; its id is a hash of its public key
newChannel(publicKey, name) ==
  [id |-> [hashOf |-> publicKey], publicKey |-> publicKey, name |-> name]

\* the invites the Protocol may be handed: for a channel named "R" of
\* another Protocol
Invites == { [channelPubKey |-> "kR", channelName |-> "R"] }

\* Channel.serializeData and Identity.serializeData: the fields that are
\* stored
serializeData(entity) ==
  [publicKey |-> entity.publicKey, name |-> entity.name]

\* Channel.deserializeData
channelOf(stored) == newChannel(stored.publicKey, stored.name)

\* Map.set on the submap of a prefix: a new id goes last, an id already
\* there keeps its place
submapSet(submap, id, value) ==
  IF \E i \in DOMAIN submap : submap[i].id = id
  THEN [i \in DOMAIN submap |->
          IF submap[i].id = id THEN [id |-> id, value |-> value]
          ELSE submap[i]]
  ELSE Append(submap, [id |-> id, value |-> value])

RECURSIVE storeEach(_, _, _)
\* the loops of Protocol.save: Memory.storeEntity for each entity, under the
\* channel's id or the identity's public key
storeEach(submap, entities, isChannel) ==
  IF entities = <<>> THEN submap
  ELSE LET entity == Head(entities)
           id == IF isChannel THEN entity.id ELSE entity.publicKey
       IN  storeEach(submapSet(submap, id, serializeData(entity)),
                     Tail(entities), isChannel)

\* Protocol.save
save(entities, list, ids) ==
  [channel |-> storeEach(entities.channel, list, TRUE),
   identity |-> storeEach(entities.identity, ids, FALSE)]

\* Protocol.load on a Protocol just constructed: the channels are pushed in
\* the order of Memory.getEntityKeys; for the identities the key `id` is
\* pushed, not the identity that was retrieved
load(entities) ==
  [channels |-> [i \in DOMAIN entities.channel |->
                   channelOf(entities.channel[i].value)],
   identities |-> [i \in DOMAIN entities.identity |->
                     string(entities.identity[i].id)]]

\* nothing but the identities, the channels and the storage changes
PersistFrame ==
  /\ UNCHANGED <<data, now, last>>
  /\ UNCHANGED syncVars
  /\ UNCHANGED <<calls, incoming, map, promises, settled, call, answer>>
  /\ UNCHANGED <<link, peers, conn, sentError, closing>>

\* Protocol.createIdentity(name)
CreateIdentity ==
  /\ Len(channels) < MaxChannels
  /\ \E n \in DOMAIN Names :
       LET name == Names[n]
           identity == newIdentity(name)
           pushedIds == Append(identities, identity)
           pushed == Append(channels, newChannel(identity.publicKey, name))
       IN  IF \E i \in DOMAIN identities : identities[i].name = name
           THEN UNCHANGED <<channels, identities, storage>>
           ELSE /\ identities' = pushedIds
                /\ channels' = pushed
                /\ storage' = save(storage, pushed, pushedIds)
  /\ UNCHANGED reloaded
  /\ PersistFrame

\* Protocol.channelFromInvite(invite, identity, name); without a name the
\* channel takes the invite's channelName
ChannelFromInvite ==
  /\ Len(channels) < MaxChannels
  /\ identities # <<>>
  /\ \E invite \in Invites, name \in Range(Names) \cup {"undefined"} :
       channels' =
         Append(channels,
                newChannel(invite.channelPubKey,
                           IF name = "undefined" THEN invite.channelName
                           ELSE name))
  /\ UNCHANGED <<identities, storage, reloaded>>
  /\ PersistFrame

\* Protocol.save()
Save ==
  /\ storage' = save(storage, channels, identities)
  /\ storage' # storage
  /\ UNCHANGED <<channels, identities, reloaded>>
  /\ PersistFrame

\* new Protocol({ storage }) and load()
Load ==
  /\ reloaded' = [loaded |-> TRUE,
                   channels |-> load(storage).channels,
                   identities |-> load(storage).identities]
  /\ UNCHANGED <<channels, identities, storage>>
  /\ PersistFrame

NextPersist == CreateIdentity \/ ChannelFromInvite \/ Save \/ Load

SpecPersist == Init /\ [][NextPersist]_vars

\* every channel and identity the Protocol holds is in the storage under its
\* id, nothing else is, and no channel is held twice
Saved ==
  LET fresh == save([channel |-> <<>>, identity |-> <<>>],
                    channels, identities)
  IN  /\ Range(storage.channel) = Range(fresh.channel)
      /\ Range(storage.identity) = Range(fresh.identity)
      /\ \A i, j \in DOMAIN channels :
           channels[i].id = channels[j].id => i = j

\* the names of a list of channels or identities, in the list's order
namesOf(list) == [i \in DOMAIN list |-> list[i].name]

\* the place of a name in the ascending order of the names "1", "2", "R"
rank(name) == IF name = "1" THEN 1 ELSE IF name = "2" THEN 2 ELSE 3

\* C29: Persistence round trip -- when everything a Protocol holds was
\* saved, a second Protocol loaded from the same storage holds identities of
\* the same names, each an Identity with the key of the channel of its name,
\* and the same channels, listed in ascending order of name.
C29_RoundTrip ==
  [][(reloaded' # reloaded /\ Saved) =>
       /\ Range(namesOf(reloaded'.identities)) = Range(namesOf(identities))
       /\ \A i \in DOMAIN reloaded'.identities :
            LET id == reloaded'.identities[i]
            IN  /\ id.type = "Identity"
                /\ \E c \in Range(reloaded'.channels) :
                     c.name = id.name /\ c.publicKey = id.publicKey
       /\ Range(reloaded'.channels) = Range(channels)
       /\ \A i, j \in DOMAIN reloaded'.channels :
            i < j => rank(reloaded'.channels[i].name)
                       <= rank(reloaded'.channels[j].name)]_vars

\* C30: No two channels of one name -- the Protocol never holds two
\* different channels with the same name.
C30_UniqueChannelNames ==
  \A i, j \in DOMAIN channels :
    channels[i].name = channels[j].name => channels[i].id = channels[j].id

\* the outcomes of Channel.receive that are errors
Rejections ==
  {"ban: invalid signature", "ban: parent count", "ban: parent not found",
   "ban: parent delta", "ban: height", "ban: future", "ban: past",
   "ban: root content", "ban: non-root content", "ban: json limit"}

C36_PostReceiveAgreement ==
  (last.op = "post" /\ last.outcome = "ok") =>
    LET m == getMessage(channel, last.hash)
    IN  receiveOutcome(seenBy(channel.messageByHash \ {m}), m, now) = "ok"

\* C38: Query is total -- for every cursor, direction and limit >= 0 the
\* query service returns a result and does not fail; for a cursor hash that
\* is not stored the result is empty with both hashes null.
C38_QueryIsTotal ==
  answer.op = "query" =>
    /\ ~answer.error
    /\ (answer.cursor.hash # Null /\ ~hasMessage(data["A"], answer.cursor.hash))
         => /\ answer.messages = <<>>
            /\ answer.forwardHash = Null
            /\ answer.backwardHash = Null

(***************************************************************************)
(* Two peers that are handed the same messages at different times: the     *)
(* root, and messages of a member whose link expires right after Tick(1).  *)
(***************************************************************************)
ShortLink == [signedBy |-> "root", trustee |-> "k1",
              validFrom |-> 0, validTo |-> Tick(1) + 1]

\* the messages the member signs on the root, under either hash and with
\* any timestamp
MemberMessages ==
  { [hash |-> h, parents |-> {1}, height |-> 1, timestamp |-> ts,
     body |-> "json", chain |-> <<ShortLink>>, signer |-> "k1",
     jsonLength |-> 2] : h \in {2, 3}, ts \in Times }

\* a call of Channel.receive(message) at peer p with the root or a message
\* of the member; a hash names one message on both peers
ReceiveAt(p) ==
  \E message \in {Root} \cup MemberMessages :
    /\ \A q \in Peers : \A m \in data[q].messageByHash :
         m.hash = message.hash => m = message
    /\ data' = [data EXCEPT ![p] = receive(@, message, now)]
    /\ last' = [op |-> "receive", hash |-> 0, timestamp |-> 0,
                outcome |-> kind(receiveOutcome(data[p], message, now))]
    /\ UNCHANGED now
    /\ UNCHANGED syncVars
    /\ UNCHANGED otherVars

NextExpiry == Advance \/ \E p \in Peers : ReceiveAt(p)

SpecExpiry == Init /\ [][NextExpiry]_vars

\* C40: Acceptance does not depend on the time of receipt -- a message that
\* one peer accepted is accepted by the other peer whenever that peer holds
\* its parents, however late it receives it.
C40_ReceiptTime ==
  \A p \in Peers : \A m \in data[p].messageByHash :
    m.parents \subseteq hashesOf(remote(p)) =>
      receiveOutcome(data[remote(p)], m, now) \in {"ok", "duplicate"}

(***************************************************************************)
(* Chain.verify over chains of up to MAX_LENGTH links.  A link's signature *)
(* is by one of the keys over this channel's id, or by the root key over   *)
(* another channel's id ("root/other"), which no key of this channel       *)
(* verifies.                                                               *)
(***************************************************************************)
MAX_LENGTH == 3

Windows == { [validFrom |-> 0, validTo |-> Tick(MaxTick) + 1],
             [validFrom |-> Tick(1), validTo |-> Tick(1) + 1] }

ChainLinks ==
  { [signedBy |-> s, trustee |-> k, validFrom |-> w.validFrom,
     validTo |-> w.validTo] :
      s \in {"root", "k1", "k2", "root/other"}, k \in {"k1", "k2"},
      w \in Windows }

ChainsUpTo(n) == UNION { [1..k -> ChainLinks] : k \in 0..n }

\* Chain.verify
chainVerify(chain, timestamp) == getLeafKey(chain, timestamp) # "false"

\* a chain and an instant to verify it at
InitChain ==
  /\ data = [p \in Peers |-> EmptyData]
  /\ now = Tick(0)
  /\ last = NoCall
  /\ InitAgents
  /\ notified = [p \in Peers |-> FALSE]
  /\ calls = {}
  /\ incoming = <<>>
  /\ map = {}
  /\ promises = <<>>
  /\ settled = <<>>
  /\ call = NoWait
  /\ \E chain \in ChainsUpTo(MAX_LENGTH), timestamp \in Times :
       answer = [op |-> "chain", chain |-> chain, timestamp |-> timestamp,
                 ok |-> FALSE, leafKey |-> "none"]
  /\ InitProtocol

\* the call of chain.verify(channel, timestamp), and of getLeafKey
VerifyChain ==
  /\ answer.op = "chain"
  /\ answer' = [answer EXCEPT
                  !.op = "verify",
                  !.ok = chainVerify(answer.chain, answer.timestamp),
                  !.leafKey = getLeafKey(answer.chain, answer.timestamp)]
  /\ UNCHANGED <<data, now, last, syncVars, calls, incoming, map, promises,
                 settled, call, protocolVars>>

SpecChain == InitChain /\ [][VerifyChain]_vars

\* the signer the i-th link is checked against
signerOf(chain, i) == IF i = 1 THEN "root" ELSE chain[i - 1].trustee

\* C33: Chain.verify(channel, t) succeeds exactly when every link, in order,
\* is signed for this channel by the current signer (the root key first, then
\* the previous link's trustee) and has valid_from <= t < valid_to; on
\* success the leaf key is the last link's trustee key.
C33_ChainVerification ==
  answer.op = "verify" =>
    LET chain == answer.chain
        t     == answer.timestamp
    IN  /\ answer.ok <=>
             \A i \in 1..Len(chain) :
               /\ chain[i].signedBy = signerOf(chain, i)
               /\ chain[i].validFrom <= t
               /\ t < chain[i].validTo
        /\ (answer.ok /\ chain # <<>>) =>
             answer.leafKey = chain[Len(chain)].trustee

\* a chain of three links verified at an instant inside all three windows,
\* one of them the short one
C33_Witness ==
  /\ answer.op = "verify" /\ answer.ok
  /\ Len(answer.chain) = 3
  /\ answer.chain[2].signedBy = "k1" /\ answer.chain[3].signedBy = "k2"
  /\ answer.chain[2].validTo = Tick(1) + 1
  /\ answer.leafKey = "k1"

C34_RetryAfterFailure ==
  \A p \in Peers :
    (thrown.peer = p /\ thrown.error \in {"BanError", "Error"} /\ runs[p] = {})
      => agent[p].state = "idle"

\* C39: a QueryResponse or BulkResponse that arrives after its request has
\* timed out is discarded without raising a BanError: the session of a
\* remote that is merely slow stays open.
C39_LateResponseDiscarded ==
  [][(/\ packet.outcome = "timeout"
      /\ packet' # packet
      /\ packet'.peer = packet.peer
      /\ packet'.seq = packet.seq
      /\ packet'.type = packet.type)
       => (packet'.outcome # "BanError" /\ connected')]_vars

(***************************************************************************)
(* Invites: Protocol.waitForInvite registers a waiter under the request    *)
(* id on the inviteWaitList that every Peer shares, and Peer.onInvite      *)
(* hands an incoming invite to it.                                         *)
(***************************************************************************)
\* Peer.onInvite(packet): a requestId of another length than
\* INVITE_REQUEST_ID_LENGTH throws, otherwise the invite goes to
\* inviteWaitList.resolve under the request id
Invite ==
  \E id \in Ids, invite \in Results, validLength \in BOOLEAN :
    WaitListBecomes(IF validLength THEN resolve(waitList, id, invite)
                    ELSE waitList,
            [op |-> IF validLength THEN "invite" ELSE "invalid invite",
             id |-> id, entry |-> 0, value |-> invite])

\* waiters register (waitForInvite), give up (cancel) and invites arrive
NextInvite == Wait \/ Cancel \/ Invite

SpecInvite == Init /\ [][NextInvite]_vars

MaxChain == 5
MaxOwn == 4
sideHash == MaxChain + 2
ownHash(i) == sideHash + i

\* the first k messages of B's chain, in the order they were posted
chainB(k, n, withSide) ==
  [i \in 1..k |->
     posted(i + 1, IF i = n /\ withSide THEN {i, sideHash} ELSE {i}, i)]

remoteStore(n, withSide) ==
  addAll(fromIdentity,
         (IF withSide THEN <<posted(sideHash, {1}, 1)>> ELSE <<>>)
         \o chainB(n, n, withSide))

localStore(n, withSide, shared, own) ==
  addAll(fromIdentity,
         chainB(shared, n, FALSE)
         \o [i \in 1..own |->
               posted(ownHash(i), {IF i = 1 THEN 1 ELSE ownHash(i - 1)}, i)])

InitOneWay ==
  /\ \E n \in 3..MaxChain, withSide \in BOOLEAN, own \in 0..MaxOwn :
       \E shared \in 0..(n - 1) :
         data = [p \in Peers |->
                   IF p = "A" THEN localStore(n, withSide, shared, own)
                   ELSE remoteStore(n, withSide)]
  /\ now = Tick(0)
  /\ last = NoCall
  /\ InitAgents
  /\ notified = [p \in Peers |-> p = "A"]
  /\ InitOther

NextOneWay == Notification("A") \/ QueryResponse("A") \/ BulkResponse("A")

SpecOneWay == InitOneWay /\ [][NextOneWay]_vars

\* the index in the remote's linearization that a query of A with `cursor`
\* starts from
remoteIndex(cursor) ==
  findIndex(data["B"].messages,
            IF cursor.hash # Null THEN cursor
            ELSE [hash |-> Null,
                  height |-> Min(cursor.height, getMinLeafHeight(data["B"]))])

\* this step sends the next query of the loop of Channel.sync
NextQuerySent ==
  \E e \in pendingRequests'["A"] : e.type = "query" /\ e.seq = agent["A"].seq

\* this step handles a bulk response
BulkRound ==
  /\ packet' # packet
  /\ packet'.type = "bulk"
  /\ packet'.outcome = "resolve"

\* each round of receiveBulk consumes at least one of the requested hashes
BulkConsumes ==
  BulkRound =>
    \A e \in pendingRequests["A"] : \A r \in runs'["A"] :
      (e.type = "bulk" /\ e.run = r.id) =>
        Len(r.hashes) < Len(e.request.hashes)

\* the run sends no more requests than four for every message of the remote
RequestsBounded ==
  agent["A"].seq.hi = 0
  /\ agent["A"].seq.lo <= 4 * getMessageCount(data["B"])

====
